---- MODULE Spec2Model ----
(***************************************************************************)
(* Model of the document segmentation pipeline of shubh-man007/Legos:      *)
(*   - the OCR fallback router          (src/src/utils/ocr.py)             *)
(*   - the section splitter and chunker (ingestion-service/utils/chunking) *)
(*   - the detect / extract stages      (detectionAgent, extractionAgent)  *)
(* Strings that the code builds by formatting are modelled as records that *)
(* keep every formatted field; texts are modelled as token sequences.      *)
(***************************************************************************)
EXTENDS Integers, Sequences, FiniteSets, TLC

(***************************************************************************)
(* Bounds of the model.                                                    *)
(***************************************************************************)
MaxPriorityLen == 3

(***************************************************************************)
(* OCR router: types, engines and engine outcomes.                         *)
(***************************************************************************)
RefinedType ==
  {"pdf_text", "pdf_scanned", "word", "excel", "text", "image",
   "unknown", "encrypted", "corrupted"}

\* Engine names; "other" stands for any name run_model does not know.
Engine == {"docai", "vision", "tesseract"}
EngineNames == Engine \cup {"other"}

DefaultEngines == <<"docai", "vision", "tesseract">>

\* Texts an engine may recognise (blank or not) and messages an exception may carry
\* (str(e) of an exception raised without arguments is the empty string).
OcrTexts == {"", "recognised text"}
ExcMessages == {"", "timeout"}

Outcome(kind, text, msg) == [kind |-> kind, text |-> text, msg |-> msg]

\* What one invocation of an engine can do, returning outcomes only.
ReturningOutcomes(model) ==
  LET ok    == {Outcome("ok", t, "") : t \in OcrTexts}
      raise == {Outcome("raise", "", m) : m \in ExcMessages}
  IN  CASE model = "docai"     -> {Outcome("config", "", "")} \cup ok \cup raise
        [] model = "vision"    -> {Outcome("resp_error", "", "provider_error")} \cup ok \cup raise
        [] model = "tesseract" -> ok \cup raise
        [] OTHER               -> {Outcome("unknown", "", "")}

Warning(kind, engine, detail) == [kind |-> kind, engine |-> engine, detail |-> detail]

OCRResult(text, engine, pages, warnings, error) ==
  [text |-> text, engine |-> engine, pages_processed |-> pages,
   warnings |-> warnings, error |-> error]

NoResult == OCRResult("", "none", 0, <<>>, "no_result")

run_docai(o) ==
  CASE o.kind = "config" ->
         OCRResult("", "docai", 0,
            <<Warning("note", "", "Missing DocumentAI environment configuration")>>,
            "config_error")
    [] o.kind = "ok"    -> OCRResult(o.text, "docai", 1, <<>>, "")
    [] OTHER            -> OCRResult("", "docai", 0, <<>>, o.msg)

run_vision(o) ==
  CASE o.kind = "resp_error" -> OCRResult("", "vision", 0, <<>>, o.msg)
    [] o.kind = "ok"         -> OCRResult(o.text, "vision", 1, <<>>, "")
    [] OTHER                 -> OCRResult("", "vision", 0, <<>>, o.msg)

run_tesseract_warns(o) ==
  CASE o.kind = "ok" ->
         OCRResult(o.text, "tesseract", 1, <<Warning("note", "", "low dpi")>>, "")
    [] OTHER         -> OCRResult("", "tesseract", 0, <<>>, o.msg)

run_tesseract(o) ==
  CASE o.kind = "ok" -> OCRResult(o.text, "tesseract", 1, <<>>, "")
    [] OTHER         -> OCRResult("", "tesseract", 0, <<>>, o.msg)

run_model(model, o) ==
  CASE model = "docai"     -> run_docai(o)
    [] model = "vision"    -> run_vision(o)
    [] model = "tesseract" -> run_tesseract(o)
    [] OTHER -> OCRResult("", model, 0,
                   <<Warning("note", "", "unknown engine")>>, "unknown engine")

\* f"{model}_failed:{result.error}"
FailTag(model, error) == Warning("failed", model, error)

\* refined_type not in ["pdf_scanned", "image"] is the no-op case
RequiresOCRAlsoPdfText(t) == t \in {"pdf_scanned", "image", "pdf_text"}
RequiresOCR(t) == t \in {"pdf_scanned", "image"}

\* config.engine_priority or ["docai","vision","tesseract"]
EnginesToTry(priority) == IF priority = <<>> THEN DefaultEngines ELSE priority

\* config.engine_priority[0] if config.engine_priority else "docai"
AttributedEngineLast(priority) ==
  IF priority = <<>> THEN "docai" ELSE priority[Len(priority)]
AttributedEngine(priority) == IF priority = <<>> THEN "docai" ELSE priority[1]

NoOpResult(priority) ==
  OCRResult("", AttributedEngine(priority), 0,
            <<Warning("note", "", "OCR not required for this type")>>, "")

\* accumulated_warnings.append(f"{model}_failed:{result.error}")
AccumulatePrepend(acc, model, error) == <<FailTag(model, error)>> \o acc
AccumulateWarning(acc, model, error) == Append(acc, FailTag(model, error))

\* result.warnings = (result.warnings or []) + accumulated_warnings
OnSuccess(result, acc) ==
  IF acc # <<>> THEN [result EXCEPT !.warnings = result.warnings \o acc] ELSE result

\* error = last_error or "all_engines_failed"
AllFailedResultDropsLast(priority, acc, last) ==
  OCRResult("", AttributedEngine(priority), 0,
            IF acc = <<>> THEN acc ELSE SubSeq(acc, 1, Len(acc) - 1),
            IF last = "" THEN "all_engines_failed" ELSE last)
AllFailedResult(priority, acc, last) ==
  OCRResult("", AttributedEngine(priority), 0, acc,
            IF last = "" THEN "all_engines_failed" ELSE last)

\* the for loop advances to the next entry of the list
SkipIndex(i) == i + 2
NextIndex(i) == i + 1

(***************************************************************************)
(* State of one call of ocr_router.                                        *)
(***************************************************************************)
VARIABLES
  refined_type,          \* argument
  engine_priority,       \* config.engine_priority
  rpc,                   \* "start", "loop", "hung", "done"
  idx,                   \* position of the for loop in the list (1-based)
  accumulated_warnings,
  last_error,
  result,                \* the returned OCRResult once rpc = "done"
  invoked                \* history: the engine invocations made, in order

rvars == <<refined_type, engine_priority, rpc, idx, accumulated_warnings,
           last_error, result, invoked>>

(***************************************************************************)
(* State of the splitter / chunker operations on one text.                 *)
(***************************************************************************)
VARIABLES
  text,                  \* the input text, a sequence of lines
  cpc,                   \* "idle", "start", "split", "documents", "loop", "chunked"
  sections,              \* result of split_sections(text)
  documents,             \* result of create_documents(text, ...)
  parts,                 \* chunk_section: the parts of the body
  part_idx,              \* chunk_section: position of the for loop (1-based)
  loop,                  \* chunk_section: chunks, current, current_tokens
  merged,                \* result of chunk_section
  chunker_calls          \* history: the sections create_documents handed to
                         \* chunk_section (0-based section indices)

cvars == <<text, cpc, sections, documents, parts, part_idx, loop, merged,
           chunker_calls>>

(***************************************************************************)
(* State of one run of the pipeline over a batch of files (the State       *)
(* object the graph nodes pass along, and the answer of run_pipeline).     *)
(* Dictionaries are functions whose domain is the set of keys; a file's    *)
(* name is its position in downloaded_files.                               *)
(***************************************************************************)
VARIABLES
  ppc,                   \* "idle", "file", "detect", "extract", "redetected", "report", "done"
  downloaded_files,      \* the batch, in dictionary order
  mime_types,
  detected_types,
  ocr_needed,
  routing,               \* files_to_extract, files_to_ocr, files_excel, files_skipped
  file_idx,              \* extraction_agent: position of the for loop (1-based)
  extracted_content,
  chunked_documents,
  warnings,              \* state.warnings
  upserted,              \* the dictionary handed to upsert_to_pinecone
  results,               \* the answer of run_pipeline
  variant,               \* which extraction agent runs: "backend" or "ingestion"
  stored,                \* the documents handed to the vector store
  attempts               \* history: per file, the extractors and engines invoked

pvars == <<ppc, downloaded_files, mime_types, detected_types, ocr_needed,
           routing, file_idx, extracted_content, chunked_documents, warnings,
           upserted, results, variant, stored, attempts>>

(***************************************************************************)
(* State of the single functions applied to one input: _probe_pdf to one   *)
(* PDF document, the merge pass of chunk_section to one list of chunks.    *)
(***************************************************************************)
VARIABLES
  pdf_doc,               \* the document handed to _probe_pdf
  probed,                \* what _probe_pdf returned, once it has
  chunk_list,            \* the list of chunks handed to the merge pass
  passes,                \* how many times the pass has been applied
  merged_list            \* the list after that many passes

fvars == <<pdf_doc, probed, chunk_list, passes, merged_list>>

vars == <<rvars, cvars, pvars, fvars>>

RECURSIVE SeqsUpTo(_, _)
SeqsUpTo(S, n) ==
  IF n = 0 THEN {<<>>}
  ELSE LET shorter == SeqsUpTo(S, n - 1)
       IN  shorter \cup {Append(s, x) : s \in {t \in shorter : Len(t) = n - 1}, x \in S}

RouterIdle(pc) ==
  /\ rpc = pc
  /\ idx = 1
  /\ accumulated_warnings = <<>>
  /\ last_error = ""
  /\ result = NoResult
  /\ invoked = <<>>

ChunkerIdle ==
  /\ text = <<>>
  /\ cpc = "idle"
  /\ sections = <<>>
  /\ documents = <<>>
  /\ parts = <<>>
  /\ part_idx = 1
  /\ loop = [chunks |-> <<>>, current |-> <<>>, current_tokens |-> 0]
  /\ merged = <<>>
  /\ chunker_calls = <<>>

NoRouting ==
  [files_to_extract |-> <<>>, files_to_ocr |-> <<>>, files_excel |-> <<>>,
   files_skipped |-> <<>>]

NoResults ==
  [status |-> "none", files_processed |-> 0, chunks_created |-> 0,
   documents_analyzed |-> 0, results |-> <<>>, warnings |-> <<>>]

PipelineIdle(pc) ==
  /\ ppc = pc
  /\ downloaded_files = <<>>
  /\ mime_types = <<>>
  /\ detected_types = <<>>
  /\ ocr_needed = <<>>
  /\ routing = NoRouting
  /\ file_idx = 1
  /\ extracted_content = <<>>
  /\ chunked_documents = <<>>
  /\ warnings = <<>>
  /\ upserted = <<>>
  /\ results = NoResults
  /\ stored = <<>>
  /\ attempts = <<>>

NoPdf == [opens |-> FALSE, encrypted |-> FALSE, pages |-> <<>>]
NotProbed == [kind |-> "none", needs_ocr |-> FALSE]

MergeIdle ==
  /\ chunk_list = <<>>
  /\ passes = 0
  /\ merged_list = <<>>

FunctionsIdle ==
  /\ pdf_doc = NoPdf
  /\ probed = NotProbed
  /\ MergeIdle

Init ==
  /\ FunctionsIdle
  /\ refined_type \in RefinedType
  /\ engine_priority \in SeqsUpTo(EngineNames, MaxPriorityLen)
  /\ RouterIdle("start")
  /\ ChunkerIdle
  /\ PipelineIdle("idle")
  /\ variant = "backend"

\* lines 236-248: the no-op return, or entry into the loop
RouterEnter ==
  /\ rpc = "start"
  /\ IF ~RequiresOCR(refined_type)
       THEN /\ result' = NoOpResult(engine_priority)
            /\ rpc' = "done"
       ELSE /\ rpc' = "loop"
            /\ UNCHANGED result
  /\ UNCHANGED <<refined_type, engine_priority, idx, accumulated_warnings,
                 last_error, invoked>>
  /\ UNCHANGED <<cvars, pvars, fvars>>

\* lines 250-257: one iteration of the loop whose engine invocation returns
RouterIteration ==
  /\ rpc = "loop"
  /\ idx <= Len(EnginesToTry(engine_priority))
  /\ LET model == EnginesToTry(engine_priority)[idx] IN
     \E o \in ReturningOutcomes(model) :
       LET r == run_model(model, o) IN
       /\ invoked' = Append(invoked, [index |-> idx, engine |-> model,
                                      outcome |-> o, error |-> r.error,
                                      returned |-> TRUE])
       /\ IF r.error = ""
            THEN /\ result' = OnSuccess(r, accumulated_warnings)
                 /\ rpc' = "done"
                 /\ UNCHANGED <<accumulated_warnings, last_error, idx>>
            ELSE /\ accumulated_warnings' =
                       AccumulateWarning(accumulated_warnings, model, r.error)
                 /\ last_error' = r.error
                 /\ idx' = NextIndex(idx)
                 /\ UNCHANGED <<result, rpc>>
  /\ UNCHANGED <<refined_type, engine_priority>>
  /\ UNCHANGED <<cvars, pvars, fvars>>

\* line 251: the engine invocation never returns; the call is made without
\* any timeout (ocr_timeout_sec is read nowhere), so the router stays in it
RouterEngineHangs ==
  /\ rpc = "loop"
  /\ idx <= Len(EnginesToTry(engine_priority))
  /\ EnginesToTry(engine_priority)[idx] \in Engine
  /\ invoked' = Append(invoked,
        [index |-> idx, engine |-> EnginesToTry(engine_priority)[idx],
         outcome |-> Outcome("hang", "", ""), error |-> "", returned |-> FALSE])
  /\ rpc' = "hung"
  /\ UNCHANGED <<refined_type, engine_priority, idx, accumulated_warnings,
                 last_error, result>>
  /\ UNCHANGED <<cvars, pvars, fvars>>

\* lines 259-267: the list is exhausted
RouterAllFailed ==
  /\ rpc = "loop"
  /\ idx > Len(EnginesToTry(engine_priority))
  /\ result' = AllFailedResult(engine_priority, accumulated_warnings, last_error)
  /\ rpc' = "done"
  /\ UNCHANGED <<refined_type, engine_priority, idx, accumulated_warnings,
                 last_error, invoked>>
  /\ UNCHANGED <<cvars, pvars, fvars>>

Next ==
  \/ RouterEnter
  \/ RouterIteration
  \/ RouterEngineHangs
  \/ RouterAllFailed

Spec == Init /\ [][Next]_vars

(***************************************************************************)
(* Texts.  Every pattern of chunking.py is anchored at a line start, so a  *)
(* text is a sequence of lines; a line is optional leading whitespace      *)
(* (pad characters), then an optional marker, then words:                  *)
(*   lead = "sec": a section-boundary marker such as "Section 1"           *)
(*   lead = "bul": a bullet marker such as "(a)"                           *)
(*   lead = "none": no marker; with words = 0 the line is blank            *)
(* A marker that is not at a line start is an ordinary word.  A piece of   *)
(* text cut out of a line keeps the line and the word positions it came    *)
(* from (a run), so that any loss or reordering of words is visible.       *)
(***************************************************************************)
MaxGroups == 2

Line(lead, words, pad) == [lead |-> lead, words |-> words, pad |-> pad]

\* words of the marker itself: "Section 1" is two words, "(a)" is one
LeadWords(lead) == CASE lead = "sec" -> 2 [] lead = "bul" -> 1 [] OTHER -> 0
LineWords(l) == LeadWords(l.lead) + l.words
IsBlank(l) == LineWords(l) = 0
\* characters of a line: one per word plus one separator between words
LineLen(l) == l.pad + (IF IsBlank(l) THEN 0 ELSE 2 * LineWords(l) - 1)

\* The line groups texts are built from: a line and how often it repeats.
LineGroups ==
  { [line |-> Line("none", 0, 0), rep |-> 1],      \* empty line
    [line |-> Line("none", 0, 1), rep |-> 1],      \* line of whitespace
    [line |-> Line("sec", 1, 0), rep |-> 1],       \* "Section 1 Introduction"
    [line |-> Line("none", 3, 0), rep |-> 1],      \* short paragraph
    [line |-> Line("bul", 562, 0), rep |-> 1],     \* "(a) <562 words>": 750 tokens
    [line |-> Line("none", 600, 0), rep |-> 1],    \* paragraph of 800 tokens
    [line |-> Line("none", 1000, 0), rep |-> 1],   \* paragraph of 1333 tokens
    [line |-> Line("bul", 300, 0), rep |-> 1],     \* "(a) <300 words>"
    [line |-> Line("bul", 2, 0), rep |-> 340] }    \* 340 lines "(a) two words"

RECURSIVE Expand(_)
Expand(gs) ==
  IF gs = <<>> THEN <<>>
  ELSE [i \in 1..gs[1].rep |-> gs[1].line] \o Expand(Tail(gs))

Texts == {Expand(gs) : gs \in SeqsUpTo(LineGroups, MaxGroups) \ {<<>>}}

\* the element of a one-element set; the first half of a range is worked
\* out before the second half is begun
Only(S) == CHOOSE x \in S : TRUE

Min(S) == CHOOSE x \in S : \A y \in S : x <= y
Max(S) == CHOOSE x \in S : \A y \in S : x >= y

\* characters of lines a..b, each with the newline that ends it
\* (the ranges are halved so that the evaluation stays shallow)
RECURSIVE LinesLen(_, _, _)
LinesLen(t, a, b) ==
  IF a > b THEN 0
  ELSE IF a = b THEN LineLen(t[a]) + 1
  ELSE LinesLen(t, a, (a + b) \div 2) + LinesLen(t, (a + b) \div 2 + 1, b)

\* offset of the first character of line j (j = Len(t) + 1: one past the end)
LineStart(t, j) == LinesLen(t, 1, j - 1)

\* len(text)
TextLen(t) == LineStart(t, Len(t) + 1) - 1

(***************************************************************************)
(* split_sections                                                          *)
(***************************************************************************)
\* first line of the run of blank lines that ends just before line i
RECURSIVE BlankRunStart(_, _)
BlankRunStart(t, i) ==
  IF i > 1 /\ IsBlank(t[i - 1]) THEN BlankRunStart(t, i - 1) ELSE i

\* The lookahead (?=(?:^|\n)\s*marker) matches at offset 0 when only
\* whitespace precedes the marker, and at every newline from which only
\* whitespace leads to the marker.  Boundary j is the match that starts the
\* slice at line j: offset 0 for j = 1, else the newline that ends line j-1.
BoundaryOffset(t, j) == IF j = 1 THEN 0 ELSE LineStart(t, j) - 1

MatchLines(t) ==
  UNION {BlankRunStart(t, i)..i : i \in {k \in 1..Len(t) : t[k].lead = "sec"}}

RECURSIVE SortedSeq(_)
SortedSeq(S) == IF S = {} THEN <<>> ELSE <<Min(S)>> \o SortedSeq(S \ {Min(S)})

\* positions = [m.start() for m in finditer(text)]: one entry per offset
Positions(t) ==
  LET ms == MatchLines(t)
      distinct == {j \in ms : ~(j > 1 /\ (j - 1) \in ms
                                /\ BoundaryOffset(t, j) = BoundaryOffset(t, j - 1))}
  IN  SortedSeq(distinct)

EmptyRange == [from |-> 1, to |-> 0]
IsEmptyRange(c) == c.from > c.to

\* text[start:end].strip() for the slice made of lines a..b
StripRange(t, a, b) ==
  LET nb == {i \in a..b : ~IsBlank(t[i])}
  IN  IF nb = {} THEN EmptyRange ELSE [from |-> Min(nb), to |-> Max(nb)]

NoHeader == [line |-> 0, capped |-> FALSE]
\* the first line of the section; section_text[:80] when it has one line only
Header(c) == [line |-> c.from, capped |-> c.from = c.to]

Section(header, content, start, end) ==
  [header |-> header, content |-> content, start |-> start, end |-> end]

split_sections_skip_blank(t) ==
  LET positions == Positions(t) IN
  IF positions = <<>>
    THEN SelectSeq(<<Section(NoHeader, StripRange(t, 1, Len(t)), 0, TextLen(t))>>,
                   LAMBDA x : ~IsEmptyRange(x.content))
    ELSE LET ext == Append(positions, Len(t) + 1)
             sec(i) ==
               LET c == StripRange(t, ext[i], ext[i + 1] - 1)
               IN  Section(Header(c), c, BoundaryOffset(t, ext[i]),
                           BoundaryOffset(t, ext[i + 1]))
         IN  SelectSeq([i \in 1..Len(positions) |-> sec(i)],
                       LAMBDA x : ~IsEmptyRange(x.content))

split_sections(t) ==
  LET positions == Positions(t) IN
  IF positions = <<>>
    THEN <<Section(NoHeader, StripRange(t, 1, Len(t)), 0, TextLen(t))>>
    ELSE LET ext == Append(positions, Len(t) + 1)
             sec(i) ==
               LET c == StripRange(t, ext[i], ext[i + 1] - 1)
               IN  Section(Header(c), c, BoundaryOffset(t, ext[i]),
                           BoundaryOffset(t, ext[i + 1]))
         IN  SelectSeq([i \in 1..Len(positions) |-> sec(i)],
                       LAMBDA x : ~IsEmptyRange(x.content))

(***************************************************************************)
(* estimate_tokens and chunk_section                                       *)
(***************************************************************************)
target_min_tokens == 300
target_max_tokens == 700
min_overlap_tokens == 50
ForcePushSlack == 200
ShortSectionTokens == 750

\* words lo..hi of line l; ov marks words injected as overlap
Run(l, lo, hi, ov) == [l |-> l, lo |-> lo, hi |-> hi, ov |-> ov]
LineRun(t, i, lo) == Run(i, lo, LineWords(t[i]), FALSE)

RECURSIVE WordsIn(_, _, _)
WordsIn(ws, a, b) ==
  IF a > b THEN 0
  ELSE IF a = b THEN ws[a].hi - ws[a].lo + 1
  ELSE WordsIn(ws, a, (a + b) \div 2) + WordsIn(ws, (a + b) \div 2 + 1, b)

\* len(text.split())
WordCount(ws) == WordsIn(ws, 1, Len(ws))

\* max(1, int(words / 0.75))
estimate_tokens(ws) ==
  IF (4 * WordCount(ws)) \div 3 < 1 THEN 1 ELSE (4 * WordCount(ws)) \div 3

\* the words of the non-blank lines a..b
RangeRuns(t, a, b) ==
  SelectSeq([i \in 1..(b - a + 1) |-> LineRun(t, a + i - 1, 1)],
            LAMBDA r : r.hi >= r.lo)

\* re.split(BULLET_PATTERN, section_text): the pattern ^\s*marker\s+ has no
\* capturing group, so the marker and the whitespace around it are removed.
\* A marker is followed by whitespace unless it ends the text.
IsBulletMatch(t, i, b) == t[i].lead = "bul" /\ (t[i].words > 0 \/ i < b)

\* line i added to the parts ps, whose last element is the part being read
SplitLine(t, i, b, ps) ==
  IF IsBulletMatch(t, i, b)
    THEN Append(ps, IF t[i].words > 0 THEN <<LineRun(t, i, 2)>> ELSE <<>>)
    ELSE IF IsBlank(t[i]) THEN ps
    ELSE [ps EXCEPT ![Len(ps)] = Append(@, LineRun(t, i, 1))]

RECURSIVE SplitFold(_, _, _, _, _)
SplitFold(t, a, z, b, ps) ==
  IF a > z THEN ps
  ELSE IF a = z THEN SplitLine(t, a, b, ps)
  ELSE Only({SplitFold(t, (a + z) \div 2 + 1, z, b, left) :
               left \in {SplitFold(t, a, (a + z) \div 2, b, ps)}})

re_split(t, c) ==
  IF IsEmptyRange(c) THEN << <<>> >>
  ELSE SplitFold(t, c.from, c.to, c.to, << <<>> >>)

\* parts = re.split(...); if len(parts) <= 1: parts = [section_text]
Parts(t, c) ==
  LET ps == re_split(t, c)
  IN  IF Len(ps) <= 1
        THEN <<IF IsEmptyRange(c) THEN <<>> ELSE RangeRuns(t, c.from, c.to)>>
        ELSE ps

RECURSIVE JoinRange(_, _, _)
JoinRange(current, a, b) ==
  IF a > b THEN <<>>
  ELSE IF a = b THEN current[a]
  ELSE JoinRange(current, a, (a + b) \div 2) \o JoinRange(current, (a + b) \div 2 + 1, b)

\* " ".join(current).strip()
Join(current) == JoinRange(current, 1, Len(current))

\* last_tokens[-k:] of a text of more than k words
RECURSIVE TailWords(_, _)
TailWords(ws, k) ==
  IF k <= 0 \/ ws = <<>> THEN <<>>
  ELSE LET r == ws[Len(ws)]
           n == r.hi - r.lo + 1
       IN  IF n >= k THEN <<Run(r.l, r.hi - k + 1, r.hi, r.ov)>>
           ELSE Append(TailWords(SubSeq(ws, 1, Len(ws) - 1), k - n), r)

MarkOverlap(ws) == [i \in DOMAIN ws |-> [ws[i] EXCEPT !.ov = TRUE]]

\* overlap = " ".join(last_tokens[-min_overlap_tokens:])
\*             if len(last_tokens) > min_overlap_tokens else last
OverlapOfOneWordShort(last) ==
  MarkOverlap(IF WordCount(last) > min_overlap_tokens
                THEN TailWords(last, min_overlap_tokens - 1) ELSE last)
OverlapOf(last) ==
  MarkOverlap(IF WordCount(last) > min_overlap_tokens
                THEN TailWords(last, min_overlap_tokens) ELSE last)

LoopState(chunks, current, current_tokens) ==
  [chunks |-> chunks, current |-> current, current_tokens |-> current_tokens]

\* push_current(next_part); has_next = FALSE stands for next_part = None
push_current(st, has_next, next_part) ==
  LET chunk_text == Join(st.current)
      chunks1 == IF st.current # <<>> /\ chunk_text # <<>>
                   THEN Append(st.chunks, chunk_text) ELSE st.chunks
  IN  IF has_next /\ chunks1 # <<>>
        THEN LET overlap == OverlapOf(chunks1[Len(chunks1)])
             IN  LoopState(chunks1, <<overlap, next_part>>,
                           estimate_tokens(overlap) + estimate_tokens(next_part))
        ELSE LoopState(chunks1, <<>>, 0)

\* lines 84-99: one iteration of the loop over parts
LoopBodyNoForcePush(st, part) ==
  IF part = <<>> THEN st
  ELSE IF st.current_tokens + estimate_tokens(part) > target_max_tokens
          /\ st.current # <<>>
         THEN push_current(st, TRUE, part)
         ELSE LoopState(st.chunks, Append(st.current, part),
                        st.current_tokens + estimate_tokens(part))

LoopBody(st, part) ==
  IF part = <<>> THEN st
  ELSE LET part_tokens == estimate_tokens(part)
           st1 == IF st.current_tokens + part_tokens > target_max_tokens
                     /\ st.current # <<>>
                    THEN push_current(st, TRUE, part)
                    ELSE LoopState(st.chunks, Append(st.current, part),
                                   st.current_tokens + part_tokens)
       IN  IF st1.current_tokens > target_max_tokens + ForcePushSlack
             THEN push_current(st1, FALSE, <<>>)
             ELSE st1

\* lines 101-102: if current: push_current()
LoopExit(st) == IF st.current # <<>> THEN push_current(st, FALSE, <<>>) ELSE st

\* lines 106-113: one iteration of the merge of small chunks
MergeStepAppendOnly(m, ch) == Append(m, ch)
MergeStep(m, ch) ==
  IF m # <<>> /\ estimate_tokens(m[Len(m)]) < target_min_tokens
              /\ estimate_tokens(ch) < target_min_tokens
    THEN [m EXCEPT ![Len(m)] = @ \o ch]
    ELSE Append(m, ch)

RECURSIVE MergeFrom(_, _, _)
MergeFrom(chunks, i, m) ==
  IF i > Len(chunks) THEN m ELSE MergeFrom(chunks, i + 1, MergeStep(m, chunks[i]))

MergeSmall(chunks) == MergeFrom(chunks, 1, <<>>)

\* the loop over parts a..b, started in state st
RECURSIVE LoopFrom(_, _, _, _)
LoopFrom(ps, a, b, st) ==
  IF a > b THEN st
  ELSE IF a = b THEN LoopBody(st, ps[a])
  ELSE Only({LoopFrom(ps, (a + b) \div 2 + 1, b, left) :
               left \in {LoopFrom(ps, a, (a + b) \div 2, st)}})

chunk_section(t, c) ==
  LET ps == Parts(t, c)
  IN  MergeSmall(LoopExit(LoopFrom(ps, 1, Len(ps), LoopState(<<>>, <<>>, 0))).chunks)

(***************************************************************************)
(* create_documents                                                        *)
(***************************************************************************)
IsShortSectionBelowMin(tokens) == tokens <= target_min_tokens
IsShortSectionStrict(tokens) == tokens < ShortSectionTokens
IsShortSection(tokens) == tokens <= ShortSectionTokens

\* the text of a section body as one piece
BodyRuns(t, c) == IF IsEmptyRange(c) THEN <<>> ELSE RangeRuns(t, c.from, c.to)

SectionChunks(t, c) ==
  IF IsShortSection(estimate_tokens(BodyRuns(t, c)))
    THEN <<BodyRuns(t, c)>>
    ELSE chunk_section(t, c)

\* the sections for which the else branch of line 129 calls chunk_section
ChunkerCalls(t, secs) ==
  SelectSeq([s \in 1..Len(secs) |-> s - 1],
            LAMBDA i : ~IsShortSection(estimate_tokens(BodyRuns(t, secs[i + 1].content))))

Document(page_content, filename, header, s_idx, total, c_idx, chunk_type) ==
  [page_content |-> page_content, source |-> filename, section_header |-> header,
   section_index |-> s_idx, total_sections |-> total, clause_index |-> c_idx,
   chunk_tokens |-> estimate_tokens(page_content), chunk_type |-> chunk_type]

RECURSIVE DocumentsFrom(_, _, _, _, _)
DocumentsFrom(t, secs, s, filename, chunk_type) ==
  IF s > Len(secs) THEN <<>>
  ELSE LET chunks == SectionChunks(t, secs[s].content)
       IN  [ci \in 1..Len(chunks) |->
              Document(chunks[ci], filename, secs[s].header, s - 1, Len(secs),
                       ci - 1, chunk_type)]
           \o DocumentsFrom(t, secs, s + 1, filename, chunk_type)

create_documents(t, filename, chunk_type) ==
  DocumentsFrom(t, split_sections(t), 1, filename, chunk_type)

(***************************************************************************)
(* Operations on one text: split_sections, create_documents, and           *)
(* chunk_section applied to the text as a section body, one loop           *)
(* iteration at a time.                                                    *)
(***************************************************************************)
ChunkInit ==
  /\ FunctionsIdle
  /\ text \in Texts
  /\ cpc = "start"
  /\ sections = <<>>
  /\ documents = <<>>
  /\ parts = <<>>
  /\ part_idx = 1
  /\ loop = LoopState(<<>>, <<>>, 0)
  /\ merged = <<>>
  /\ chunker_calls = <<>>
  /\ refined_type = "text"
  /\ engine_priority = DefaultEngines
  /\ RouterIdle("idle")
  /\ PipelineIdle("idle")
  /\ variant = "backend"

Body == StripRange(text, 1, Len(text))

SplitSections ==
  /\ cpc = "start"
  /\ sections' = split_sections(text)
  /\ cpc' = "split"
  /\ UNCHANGED <<text, documents, parts, part_idx, loop, merged, chunker_calls>>
  /\ UNCHANGED <<rvars, pvars, fvars>>

CreateDocuments ==
  /\ cpc = "start"
  /\ documents' = create_documents(text, "file", "legal_adaptive")
  /\ chunker_calls' = ChunkerCalls(text, split_sections(text))
  /\ cpc' = "documents"
  /\ UNCHANGED <<text, sections, parts, part_idx, loop, merged>>
  /\ UNCHANGED <<rvars, pvars, fvars>>

\* lines 57-63
ChunkSectionEnter ==
  /\ cpc = "start"
  /\ parts' = Parts(text, Body)
  /\ part_idx' = 1
  /\ loop' = LoopState(<<>>, <<>>, 0)
  /\ cpc' = "loop"
  /\ UNCHANGED <<text, sections, documents, merged, chunker_calls>>
  /\ UNCHANGED <<rvars, pvars, fvars>>

\* lines 84-99
ChunkSectionIteration ==
  /\ cpc = "loop"
  /\ part_idx <= Len(parts)
  /\ loop' = LoopBody(loop, parts[part_idx])
  /\ part_idx' = part_idx + 1
  /\ UNCHANGED <<text, cpc, sections, documents, parts, merged, chunker_calls>>
  /\ UNCHANGED <<rvars, pvars, fvars>>

\* lines 101-115
ChunkSectionReturn ==
  /\ cpc = "loop"
  /\ part_idx > Len(parts)
  /\ loop' = LoopExit(loop)
  /\ merged' = MergeSmall(LoopExit(loop).chunks)
  /\ cpc' = "chunked"
  /\ UNCHANGED <<text, sections, documents, parts, part_idx, chunker_calls>>
  /\ UNCHANGED <<rvars, pvars, fvars>>

ChunkNext ==
  \/ SplitSections
  \/ CreateDocuments
  \/ ChunkSectionEnter
  \/ ChunkSectionIteration
  \/ ChunkSectionReturn

ChunkSpec == ChunkInit /\ [][ChunkNext]_vars

(***************************************************************************)
(* The pipeline over a batch of files: file -> detect -> extract, then the *)
(* per-file results of run_pipeline.  A file is described by its extension *)
(* and, for a PDF, by what a PDF reader finds in it:                       *)
(*   "encrypted"   the reader reports is_encrypted                         *)
(*   "corrupt"     the reader raises                                       *)
(*   "text_early"  some of the first three pages has text                  *)
(*   "text_late"   only a later page has text                              *)
(*   "no_text"     no page has text                                        *)
(* A file is faulty when its local path cannot be used: every operation on *)
(* the path raises.                                                        *)
(***************************************************************************)
MaxFiles == 2

Ext == {".pdf", ".docx", ".xlsx", ".txt", ".png", ".bin"}
PdfKind == {"encrypted", "corrupt", "text_early", "text_late", "no_text"}

File(ext, pdf, faulty) == [ext |-> ext, pdf |-> pdf, faulty |-> faulty]
Files ==
  {File(".pdf", k, FALSE) : k \in PdfKind}
    \cup {File(e, "none", FALSE) : e \in Ext \ {".pdf"}}
    \cup {File(".pdf", "text_early", TRUE), File(".txt", "none", TRUE)}

Names(fs) == [i \in 1..Len(fs) |-> i]

\* dictionaries
Get(d, k, default) == IF k \in DOMAIN d THEN d[k] ELSE default
Put(d, k, v) == [x \in DOMAIN d \cup {k} |-> IF x = k THEN v ELSE d[x]]

\* f"...{file_name}..." : a formatted warning keeps the file it names
FileWarning(kind, file, detail) == [kind |-> kind, file |-> file, detail |-> detail]
\* a warning that names no file
PlainWarning(kind) == [kind |-> kind, file |-> 0, detail |-> ""]

\* mimetypes.guess_type(path) or "application/octet-stream"
get_mime(ext) ==
  CASE ext = ".pdf"  -> "application/pdf"
    [] ext = ".docx" ->
         "application/vnd.openxmlformats-officedocument.wordprocessingml.document"
    [] ext = ".xlsx" ->
         "application/vnd.openxmlformats-officedocument.spreadsheetml.sheet"
    [] ext = ".txt"  -> "text/plain"
    [] ext = ".png"  -> "image/png"
    [] OTHER         -> "application/octet-stream"

\* mime.startswith("text/"), mime.startswith("image/")
IsTextMime(mime) == mime \in {"text/plain"}
IsImageMime(mime) == mime \in {"image/png"}

detect_type(mime) ==
  CASE mime = "application/pdf" -> "pdf"
    [] mime \in {"application/vnd.openxmlformats-officedocument.wordprocessingml.document",
                 "application/msword"} -> "word"
    [] mime \in {"application/vnd.openxmlformats-officedocument.spreadsheetml.sheet",
                 "application/vnd.ms-excel"} -> "excel"
    [] IsTextMime(mime)  -> "text"
    [] IsImageMime(mime) -> "image"
    [] OTHER             -> "unknown"

ProbeNoOcr(kind, needs_ocr) == [kind |-> kind, needs_ocr |-> FALSE]
Probe(kind, needs_ocr) == [kind |-> kind, needs_ocr |-> needs_ocr]

\* A PDF document as a reader sees it: whether it opens and parses, its
\* encryption flag, and per page what extract_text does: "text" (non-blank
\* text), "blank" (blank text or None) or "raise".
MaxPages == 4
SampleSize == 3
PageKinds == {"text", "blank", "raise"}
PdfDoc(opens, encrypted, pages) ==
  [opens |-> opens, encrypted |-> encrypted, pages |-> pages]

\* reader.pages[:3] if len(reader.pages) > 3 else reader.pages
SampledAllPages(pages) == pages
SampledPages(pages) ==
  IF Len(pages) > SampleSize THEN SubSeq(pages, 1, SampleSize) ELSE pages

\* any(...) over the sampled pages, evaluated page by page: the first page
\* with text ends it, a page that raises before that makes the probe raise
RECURSIVE ScanPages(_, _)
ScanPages(pages, i) ==
  IF i > Len(pages) THEN "blank"
  ELSE IF pages[i] = "blank" THEN ScanPages(pages, i + 1)
  ELSE pages[i]

probe_pdf(doc) ==
  IF ~doc.opens THEN Probe("corrupted", FALSE)
  ELSE IF doc.encrypted THEN Probe("encrypted", FALSE)
  ELSE CASE ScanPages(SampledPages(doc.pages), 1) = "text"  -> Probe("pdf_text", FALSE)
         [] ScanPages(SampledPages(doc.pages), 1) = "blank" -> Probe("pdf_scanned", TRUE)
         [] OTHER -> Probe("corrupted", FALSE)

\* the documents the kinds of PDF of a batch stand for
PdfDocOf(kind) ==
  CASE kind = "encrypted"  -> PdfDoc(TRUE, TRUE, <<"text">>)
    [] kind = "text_early" -> PdfDoc(TRUE, FALSE, <<"blank", "text">>)
    [] kind = "text_late"  -> PdfDoc(TRUE, FALSE, <<"blank", "blank", "blank", "text">>)
    [] kind = "no_text"    -> PdfDoc(TRUE, FALSE, <<"blank", "blank">>)
    [] OTHER               -> PdfDoc(FALSE, FALSE, <<>>)

\* the body of the loop of detection_agent for one file
RefinePdfByCoarseOnly(mime, coarse, f) ==
  IF coarse = "excel" \/ f.ext \in {".xlsx", ".xls"} THEN Probe("excel", FALSE)
  ELSE IF coarse = "word" \/ f.ext \in {".docx", ".doc"} THEN Probe("word", FALSE)
  ELSE IF coarse = "text" \/ f.ext \in {".txt", ".md"} THEN Probe("text", FALSE)
  ELSE IF \/ coarse = "image"
          \/ IsImageMime(mime)
          \/ f.ext \in {".png", ".jpg", ".jpeg", ".tiff"} THEN Probe("image", TRUE)
  ELSE IF coarse = "pdf" THEN probe_pdf(PdfDocOf(f.pdf))
  ELSE Probe("unknown", FALSE)
Refine(mime, coarse, f) ==
  IF coarse = "excel" \/ f.ext \in {".xlsx", ".xls"} THEN Probe("excel", FALSE)
  ELSE IF coarse = "word" \/ f.ext \in {".docx", ".doc"} THEN Probe("word", FALSE)
  ELSE IF coarse = "text" \/ f.ext \in {".txt", ".md"} THEN Probe("text", FALSE)
  ELSE IF \/ coarse = "image"
          \/ IsImageMime(mime)
          \/ f.ext \in {".png", ".jpg", ".jpeg", ".tiff"} THEN Probe("image", TRUE)
  ELSE IF mime = "application/pdf" \/ f.ext = ".pdf" \/ coarse = "pdf"
         THEN probe_pdf(PdfDocOf(f.pdf))
  ELSE Probe("unknown", FALSE)

\* the try of the loop: a faulty file raises at os.path.splitext and gets
\* "unknown" from the except clause
ClassifyFaultyAsScanned(mime, coarse, f) ==
  IF f.faulty THEN Probe("pdf_scanned", TRUE) ELSE Refine(mime, coarse, f)
Classify(mime, coarse, f) ==
  IF f.faulty THEN Probe("unknown", FALSE) ELSE Refine(mime, coarse, f)

\* [n for n, t in refined.items() if t in types]
RoutedNotIn(refined, types) ==
  SelectSeq(Names(refined), LAMBDA n : refined[n].kind \notin types)
Routed(refined, types) ==
  SelectSeq(Names(refined), LAMBDA n : refined[n].kind \in types)

(***************************************************************************)
(* Texts read from files.  A string stands for the lines it is made of.    *)
(***************************************************************************)
PdfEncryptedMessage == "PDF is encrypted and cannot be processed"
PdfNoTextMessage == "No text could be extracted from PDF"
PdfErrorMessage == "Error extracting PDF text: EOF marker not found"
DecodedBytes == "decoded bytes"

\* what a .docx, a .txt or a PDF page may hold
FileTexts == {"", "  ", "document text", "Section 1 Scope\n\n \nterms apply"}

LinesOf(str) ==
  CASE str = ""                -> <<Line("none", 0, 0)>>
    [] str = "  "              -> <<Line("none", 0, 1)>>
    [] str = "document text"   -> <<Line("none", 2, 0)>>
    [] str = "recognised text" -> <<Line("none", 2, 0)>>
    [] str = "Section 1 Scope\n\n \nterms apply" ->
         <<Line("sec", 1, 0), Line("none", 0, 0), Line("none", 0, 1),
           Line("none", 2, 0)>>
    [] str = PdfEncryptedMessage -> <<Line("none", 7, 0)>>
    [] str = PdfNoTextMessage    -> <<Line("none", 7, 0)>>
    [] str = PdfErrorMessage     -> <<Line("none", 8, 0)>>
    [] OTHER                     -> <<Line("none", 2, 0)>>

\* not text or not text.strip()
IsBlankText(str) == \A i \in DOMAIN LinesOf(str) : IsBlank(LinesOf(str)[i])

\* clean_text: a run of two or more blank lines becomes one empty line,
\* runs of spaces become one space, and the result is stripped
clean_text(t) ==
  LET c == StripRange(t, 1, Len(t))
      kept == {i \in c.from..c.to : ~IsBlank(t[i]) \/ ~IsBlank(t[i - 1])}
      order == SortedSeq(kept)
      Cleaned(i) ==
        IF IsBlank(t[i])
          THEN IF IsBlank(t[i + 1]) THEN Line("none", 0, 0)
               ELSE Line("none", 0, Min({t[i].pad, 1}))
          ELSE IF i = c.from THEN [t[i] EXCEPT !.pad = 0]
               ELSE [t[i] EXCEPT !.pad = Min({t[i].pad, 1})]
  IN  IF IsEmptyRange(c) THEN <<Line("none", 0, 0)>>
      ELSE [k \in 1..Len(order) |-> Cleaned(order[k])]

\* extract_text(local_path)
extract_text(f, content) ==
  IF f.ext = ".pdf"
    THEN CASE f.pdf = "encrypted" -> PdfEncryptedMessage
           [] f.pdf = "corrupt"   -> PdfErrorMessage
           [] f.pdf = "no_text"   -> PdfNoTextMessage
           [] OTHER               -> "document text"
    ELSE IF f.ext = ".txt" THEN content ELSE DecodedBytes

ExtractionResult(content, engine, pages, ws, error) ==
  [text |-> content, engine |-> engine, pages_processed |-> pages,
   warnings |-> ws, error |-> error]

(***************************************************************************)
(* ocr_router as one call: the loop of the router run to its return over   *)
(* the outcomes the engines would have, outs[i] for the i-th engine tried. *)
(***************************************************************************)
RECURSIVE RouterLoop(_, _, _, _, _)
RouterLoop(priority, outs, i, acc, last) ==
  IF i > Len(EnginesToTry(priority)) THEN AllFailedResult(priority, acc, last)
  ELSE LET model == EnginesToTry(priority)[i]
           r == run_model(model, outs[i])
       IN  IF r.error = "" THEN OnSuccess(r, acc)
           ELSE RouterLoop(priority, outs, NextIndex(i),
                           AccumulateWarning(acc, model, r.error), r.error)

ocr_router(t, priority, outs) ==
  IF ~RequiresOCR(t) THEN NoOpResult(priority)
  ELSE RouterLoop(priority, outs, 1, <<>>, "")

\* the outcomes the engines of default_config.engine_priority may have in a
\* batch: each engine recognises a text (blank or not) or fails; docai and
\* vision fail by their own error results, tesseract by a raised exception
BatchOutcomes(model) ==
  {o \in ReturningOutcomes(model) :
     o.kind # "raise" \/ (model = "tesseract" /\ o.msg # "")}

EngineOutcomes ==
  {<<a, b, c>> : a \in BatchOutcomes("docai"),
                 b \in BatchOutcomes("vision"),
                 c \in BatchOutcomes("tesseract")}

(***************************************************************************)
(* extraction_agent: what one iteration of its loop does to the state.     *)
(* content and chunks hold at most one element: the value stored under the *)
(* file's name, if the iteration stores one.                               *)
(***************************************************************************)
Step(content, chunks, ws) == [content |-> content, chunks |-> chunks, warnings |-> ws]

Chunked(content, engine, pages, ws, error, t, n, chunk_type) ==
  Step(<<ExtractionResult(content, engine, pages, ws, error)>>,
       <<create_documents(clean_text(t), n, chunk_type)>>, <<>>)

NoChunksNoWarning(w) == Step(<<>>, << <<>> >>, <<>>)
NoChunks(w) == Step(<<>>, << <<>> >>, <<w>>)

\* lines 35-41
WordStep(n, o) ==
  IF o.kind = "ok"
    THEN Chunked(o.text, "extractDocx", 1, <<>>, "", LinesOf(o.text), n, "word_document")
    ELSE NoChunks(FileWarning("extraction_failed", n, o.msg))

\* lines 43-49
TextStep(n, f, content) ==
  Chunked(extract_text(f, content), "extractText", 1, <<>>, "",
          LinesOf(extract_text(f, content)), n, "text_document")

\* what excel_to_document hands back: a sheet as one document
SheetChunks(n) ==
  <<Document(<<Run(1, 1, 2, FALSE)>>, n, NoHeader, 0, 1, 0, "excel_sheet")>>

\* lines 51-62
ExcelStep(n, o) ==
  CASE o = "chunks" ->
         Step(<<ExtractionResult(SheetChunks(n), "excelProcessor", 1, <<>>, "")>>,
              <<SheetChunks(n)>>, <<>>)
    [] o = "empty" -> NoChunks(FileWarning("excel_no_valid_chunks", n, ""))
    [] OTHER       -> NoChunks(FileWarning("excel_processing_failed", n, "error"))

\* f"ocr_{ocr_result.engine}"
OcrEngineName(engine) ==
  CASE engine = "docai"     -> "ocr_docai"
    [] engine = "vision"    -> "ocr_vision"
    [] engine = "tesseract" -> "ocr_tesseract"
    [] OTHER                -> "ocr_other"

\* line 67: the OCR result counts as failed
OcrFailed(ocr_result) == ocr_result.error # "" \/ IsBlankText(ocr_result.text)

\* lines 64-99
OcrStep(n, f, ocr_result) ==
  IF OcrFailed(ocr_result)
    THEN LET w == FileWarning("ocr_failed", n,
                     IF ocr_result.error # "" THEN ocr_result.error
                     ELSE "no_text_extracted")
             fallback == extract_text(f, "")
         IN  IF ~IsBlankText(fallback)
               THEN [Chunked(fallback, "extractText",
                             IF fallback = "document text" THEN 1 ELSE 0,
                             <<>>, "", LinesOf(fallback), n, "pdf_text_fallback")
                     EXCEPT !.warnings = <<w>>]
               ELSE Step(<<>>, << <<>> >>,
                         <<w, FileWarning("text_extraction_empty", n, "")>>)
    ELSE Chunked(ocr_result.text, OcrEngineName(ocr_result.engine),
                 ocr_result.pages_processed, ocr_result.warnings, ocr_result.error,
                 LinesOf(ocr_result.text), n, OcrEngineName(ocr_result.engine))

\* the iteration together with the extractors and engines it invoked,
\* whether one of them raised an exception, and what ocr_router returned
Called(step, calls, raised) ==
  [content |-> step.content, chunks |-> step.chunks, warnings |-> step.warnings,
   calls |-> calls, raised |-> raised, ocr |-> NoResult]

WithOcrResult(step, ocr_result) == [step EXCEPT !.ocr = ocr_result]

\* the engines ocr_router invokes: those of the list up to the first success
RECURSIVE EnginesInvoked(_, _, _)
EnginesInvoked(priority, outs, i) ==
  IF i > Len(EnginesToTry(priority)) THEN <<>>
  ELSE <<EnginesToTry(priority)[i]>> \o
       (IF run_model(EnginesToTry(priority)[i], outs[i]).error = "" THEN <<>>
        ELSE EnginesInvoked(priority, outs, NextIndex(i)))

OcrCalls(refined, outs) ==
  <<"ocr_router">> \o
  (IF RequiresOCR(refined) THEN EnginesInvoked(DefaultEngines, outs, 1) ELSE <<>>)

\* an iteration that matches no branch stores nothing, warns of nothing and
\* invokes nothing
NoStepReadsAsText == Called(Step(<<>>, <<>>, <<>>), <<"extract_text">>, FALSE)
NoStep == Called(Step(<<>>, <<>>, <<>>), <<>>, FALSE)

DocxOutcomes ==
  {Outcome("ok", t, "") : t \in FileTexts} \cup {Outcome("raise", "", "bad zip file")}

ExcelOutcomes == {"chunks", "empty", "raise"}

FileSteps(n, f, refined) ==
  CASE refined = "word"  ->
         {Called(WordStep(n, o), <<"extract_docx">>, o.kind # "ok") : o \in DocxOutcomes}
    [] refined = "text"  ->
         {Called(TextStep(n, f, t), <<"extract_text">>, FALSE) : t \in FileTexts}
    [] refined = "excel" ->
         {Called(ExcelStep(n, o), <<"excel_to_document">>, o = "raise") :
            o \in ExcelOutcomes}
    [] refined \in {"pdf_text", "pdf_scanned", "image"} ->
         {WithOcrResult(Called(OcrStep(n, f, ocr_router(refined, DefaultEngines, outs)),
                         OcrCalls(refined, outs) \o
                         (IF OcrFailed(ocr_router(refined, DefaultEngines, outs))
                            THEN <<"extract_text">> ELSE <<>>), FALSE),
                  ocr_router(refined, DefaultEngines, outs)) :
            outs \in EngineOutcomes}
    [] OTHER -> {NoStep}

(***************************************************************************)
(* The extraction agent of ingestion-service: its own extract_text reads   *)
(* any file as text, an OCR result counts as failed only when its error is *)
(* set, and the fallback is tried for pdf_text only.                       *)
(***************************************************************************)
\* ingestion-service/utils/utils.py extract_text: the file read as UTF-8
IngestionExtractText(f, content) ==
  IF f.ext = ".txt" THEN content ELSE DecodedBytes

\* lines 42-48
IngestionTextStep(n, f, content) ==
  Chunked(IngestionExtractText(f, content), "extractText", 1, <<>>, "",
          LinesOf(IngestionExtractText(f, content)), n, "text_document")

\* lines 50-53, and lines 94-96 when excel_to_document raises
IngestionExcelStep(n, o) ==
  CASE o = "chunks" ->
         Step(<<ExtractionResult(SheetChunks(n), "excelProcessor", 1, <<>>, "")>>,
              <<SheetChunks(n)>>, <<>>)
    [] o = "empty" ->
         Step(<<ExtractionResult(<<>>, "excelProcessor", 1, <<>>, "")>>,
              << <<>> >>, <<>>)
    [] OTHER -> NoChunks(FileWarning("extraction_failed", n, "error"))

\* lines 55-92
IngestionOcrStep(n, f, refined, ocr_result) ==
  IF ocr_result.error # ""
    THEN LET w == FileWarning("ocr_failed", n, ocr_result.error)
         IN  IF refined = "pdf_text"
               THEN [Chunked(IngestionExtractText(f, ""), "extractText", 1, <<>>, "",
                             LinesOf(IngestionExtractText(f, "")), n,
                             "pdf_text_fallback")
                     EXCEPT !.warnings = <<w>>]
               ELSE Step(<<ExtractionResult("", OcrEngineName(ocr_result.engine),
                                            ocr_result.pages_processed,
                                            ocr_result.warnings, ocr_result.error)>>,
                         << <<>> >>, <<w>>)
    ELSE Chunked(ocr_result.text, OcrEngineName(ocr_result.engine),
                 ocr_result.pages_processed, ocr_result.warnings, ocr_result.error,
                 LinesOf(ocr_result.text), n, OcrEngineName(ocr_result.engine))

IngestionFileSteps(n, f, refined) ==
  CASE refined = "word"  ->
         {Called(WordStep(n, o), <<"extract_docx">>, o.kind # "ok") : o \in DocxOutcomes}
    [] refined = "text"  ->
         {Called(IngestionTextStep(n, f, t), <<"extract_text">>, FALSE) :
            t \in FileTexts}
    [] refined = "excel" ->
         {Called(IngestionExcelStep(n, o), <<"excel_to_document">>, o = "raise") :
            o \in ExcelOutcomes}
    [] refined \in {"pdf_text", "pdf_scanned", "image"} ->
         {WithOcrResult(Called(IngestionOcrStep(n, f, refined,
                                          ocr_router(refined, DefaultEngines, outs)),
                         OcrCalls(refined, outs) \o
                         (IF ocr_router(refined, DefaultEngines, outs).error # ""
                               /\ refined = "pdf_text"
                            THEN <<"extract_text">> ELSE <<>>), FALSE),
                  ocr_router(refined, DefaultEngines, outs)) :
            outs \in EngineOutcomes}
    [] OTHER -> {NoStep}

\* the loop body of the extraction agent that runs
AgentSteps(v, n, f, refined) ==
  IF v = "backend" THEN FileSteps(n, f, refined) ELSE IngestionFileSteps(n, f, refined)

\* lines 108-116: the chunks with non-blank content, per file that has any
IsValidChunk(d) == WordCount(d.page_content) > 0
ValidChunks(cd) ==
  LET valid(n) == SelectSeq(cd[n], IsValidChunk)
      keys == {n \in DOMAIN cd : valid(n) # <<>>}
  IN  [n \in keys |-> valid(n)]

\* src/workflow.py: one entry of results per key of extracted_content
FileResult(ec, cd, dt, id) ==
  [extraction_engine |-> ec[id].engine,
   chunks_created |-> Len(Get(cd, id, <<>>)),
   file_type |-> Get(dt, id, "unknown")]

RECURSIVE SumLens(_, _)
SumLens(cd, keys) ==
  IF keys = {} THEN 0
  ELSE LET k == Min(keys) IN Len(cd[k]) + SumLens(cd, keys \ {k})

Variants == {"backend", "ingestion"}

PipeInit ==
  /\ FunctionsIdle
  /\ PipelineIdle("file")
  /\ variant \in Variants
  /\ refined_type = "text"
  /\ engine_priority = DefaultEngines
  /\ RouterIdle("idle")
  /\ ChunkerIdle

\* the files file_agent could hash: they get a MIME type and a coarse type
Registered(fs) == {n \in DOMAIN fs : ~fs[n].faulty}

\* file_agent: the batch is downloaded; each file gets its MIME type and
\* coarse type, and a file of unknown type gets a warning; a faulty file
\* raises at hash_file and gets neither
FileAgent ==
  /\ ppc = "file"
  /\ \E fs \in SeqsUpTo(Files, MaxFiles) :
       /\ downloaded_files' = fs
       /\ mime_types' = [n \in Registered(fs) |-> get_mime(fs[n].ext)]
       /\ detected_types' = [n \in Registered(fs) |-> detect_type(get_mime(fs[n].ext))]
       /\ warnings' =
            LET unknown == SelectSeq(Names(fs),
                             LAMBDA n : /\ n \in Registered(fs)
                                        /\ detect_type(get_mime(fs[n].ext)) = "unknown")
            IN  [k \in 1..Len(unknown) |->
                   FileWarning("unknown_file_type", unknown[k],
                               get_mime(fs[unknown[k]].ext))]
  /\ ppc' = "detect"
  /\ UNCHANGED <<ocr_needed, routing, file_idx, extracted_content,
                 chunked_documents, upserted, results, variant, stored, attempts>>
  /\ UNCHANGED <<rvars, cvars, fvars>>

\* detection_agent, lines 20-63.  The graph runs it once ("detect"); run
\* again on the state it produced, before extraction has begun, it leaves
\* the state "redetected", which the graph does not continue from
DetectionAgent ==
  /\ \/ ppc = "detect"
     \/ ppc = "extract" /\ file_idx = 1
  /\ LET refined == [n \in DOMAIN downloaded_files |->
                       Classify(Get(mime_types, n, "application/octet-stream"),
                                Get(detected_types, n, "unknown"),
                                downloaded_files[n])]
         failed == SelectSeq(Names(downloaded_files),
                             LAMBDA n : downloaded_files[n].faulty)
     IN  /\ detected_types' = [n \in DOMAIN downloaded_files |-> refined[n].kind]
         /\ ocr_needed' = [n \in DOMAIN downloaded_files |-> refined[n].needs_ocr]
         /\ routing' =
              [files_to_extract |-> Routed(refined, {"pdf_text", "word", "text"}),
               files_to_ocr     |-> Routed(refined, {"pdf_scanned", "image"}),
               files_excel      |-> Routed(refined, {"excel"}),
               files_skipped    |-> Routed(refined, {"encrypted", "corrupted", "unknown"})]
         /\ warnings' = warnings \o
              [k \in 1..Len(failed) |->
                 FileWarning("detection_failed", failed[k], "path")]
  /\ ppc' = (IF ppc = "detect" THEN "extract" ELSE "redetected")
  /\ UNCHANGED <<downloaded_files, mime_types, file_idx, extracted_content,
                 chunked_documents, upserted, results, variant, stored, attempts>>
  /\ UNCHANGED <<rvars, cvars, fvars>>

\* extraction_agent, lines 31-103: one iteration of the loop over the files
ExtractFile ==
  /\ ppc = "extract"
  /\ file_idx <= Len(downloaded_files)
  /\ \E step \in AgentSteps(variant, file_idx, downloaded_files[file_idx],
                            Get(detected_types, file_idx, "unknown")) :
       /\ extracted_content' =
            IF step.content # <<>>
              THEN Put(extracted_content, file_idx, step.content[1])
              ELSE extracted_content
       /\ chunked_documents' =
            IF step.chunks # <<>>
              THEN Put(chunked_documents, file_idx, step.chunks[1])
              ELSE chunked_documents
       /\ warnings' = warnings \o step.warnings
       /\ attempts' = Put(attempts, file_idx,
                           [calls |-> step.calls, raised |-> step.raised,
                            ocr |-> step.ocr])
  /\ file_idx' = file_idx + 1
  /\ UNCHANGED <<ppc, downloaded_files, mime_types, detected_types, ocr_needed,
                 routing, upserted, results, variant, stored>>
  /\ UNCHANGED <<rvars, cvars, fvars>>

\* f"vector_storage_failed" never arises: upsert_to_pinecone catches what the
\* store raises.  all_documents of upsert_to_pinecone: the documents of the
\* dictionary in key order; the backend's version skips blank documents
RECURSIVE AllDocuments(_, _, _)
AllDocuments(v, cd, keys) ==
  IF keys = {} THEN <<>>
  ELSE LET k == Min(keys)
       IN  (IF v = "backend" THEN SelectSeq(cd[k], IsValidChunk) ELSE cd[k])
           \o AllDocuments(v, cd, keys \ {k})

\* what upsert_to_pinecone hands to the vector store; nothing when the store
\* is not configured
upsert_to_pinecone(v, cd, configured) ==
  IF configured THEN AllDocuments(v, cd, DOMAIN cd) ELSE <<>>

\* the end of extraction_agent: the chunks go to the vector store.
\* backend lines 105-132: only the valid chunks, when there are any;
\* ingestion-service lines 98-115: every chunk list, when there is any chunk
ExtractionFinish ==
  /\ ppc = "extract"
  /\ file_idx > Len(downloaded_files)
  /\ \E configured \in BOOLEAN :
       IF variant = "backend"
         THEN IF DOMAIN ValidChunks(chunked_documents) # {}
                THEN /\ upserted' = ValidChunks(chunked_documents)
                     /\ stored' = upsert_to_pinecone(variant,
                                     ValidChunks(chunked_documents), configured)
                     /\ UNCHANGED warnings
                ELSE /\ warnings' = Append(warnings,
                                      PlainWarning("no_valid_chunks_to_upsert"))
                     /\ UNCHANGED <<upserted, stored>>
         ELSE IF SumLens(chunked_documents, DOMAIN chunked_documents) > 0
                THEN /\ upserted' = chunked_documents
                     /\ stored' = upsert_to_pinecone(variant, chunked_documents,
                                                     configured)
                     /\ UNCHANGED warnings
                ELSE UNCHANGED <<upserted, stored, warnings>>
  /\ ppc' = "report"
  /\ UNCHANGED <<downloaded_files, mime_types, detected_types, ocr_needed,
                 routing, file_idx, extracted_content, chunked_documents,
                 results, variant, attempts>>
  /\ UNCHANGED <<rvars, cvars, fvars>>

\* run_pipeline, lines 419-450: the answer built from the final state
RunPipeline ==
  /\ ppc = "report"
  /\ results' =
       [status |-> "success",
        files_processed |-> Len(downloaded_files),
        chunks_created |-> SumLens(chunked_documents, DOMAIN chunked_documents),
        documents_analyzed |-> Cardinality(DOMAIN extracted_content),
        results |-> [id \in DOMAIN extracted_content |->
                       FileResult(extracted_content, chunked_documents,
                                  detected_types, id)],
        warnings |-> warnings]
  /\ ppc' = "done"
  /\ UNCHANGED <<downloaded_files, mime_types, detected_types, ocr_needed,
                 routing, file_idx, extracted_content, chunked_documents,
                 warnings, upserted, variant, stored, attempts>>
  /\ UNCHANGED <<rvars, cvars, fvars>>

PipeNext ==
  \/ FileAgent
  \/ DetectionAgent
  \/ ExtractFile
  \/ ExtractionFinish
  \/ RunPipeline

PipeSpec == PipeInit /\ [][PipeNext]_vars

(***************************************************************************)
(* _probe_pdf applied to one PDF document.                                 *)
(***************************************************************************)
PdfDocs ==
  {PdfDoc(o, e, p) : o \in BOOLEAN, e \in BOOLEAN, p \in SeqsUpTo(PageKinds, MaxPages)}

ProbeInit ==
  /\ pdf_doc \in PdfDocs
  /\ probed = NotProbed
  /\ MergeIdle
  /\ refined_type = "text"
  /\ engine_priority = DefaultEngines
  /\ RouterIdle("idle")
  /\ ChunkerIdle
  /\ PipelineIdle("idle")
  /\ variant = "backend"

ProbePdf ==
  /\ probed = NotProbed
  /\ probed' = probe_pdf(pdf_doc)
  /\ UNCHANGED <<pdf_doc, chunk_list, passes, merged_list, rvars, cvars, pvars>>

ProbeNext == ProbePdf

ProbeSpec == ProbeInit /\ [][ProbeNext]_vars

(***************************************************************************)
(* The merge pass of chunk_section (lines 104-115) applied to one list of  *)
(* chunks, and again to its own output.  A chunk is given by its number of *)
(* words; 225 words are the fewest whose estimate reaches 300.             *)
(***************************************************************************)
MaxChunks == 4
MaxPasses == 2

ChunkWords == {0, 1, 100, 224, 225, 400}

ChunkOf(words) == IF words = 0 THEN <<>> ELSE <<Run(1, 1, words, FALSE)>>

ChunkLists ==
  {[i \in DOMAIN ws |-> ChunkOf(ws[i])] : ws \in SeqsUpTo(ChunkWords, MaxChunks)}

MergeInit ==
  /\ chunk_list \in ChunkLists
  /\ passes = 0
  /\ merged_list = chunk_list
  /\ pdf_doc = NoPdf
  /\ probed = NotProbed
  /\ refined_type = "text"
  /\ engine_priority = DefaultEngines
  /\ RouterIdle("idle")
  /\ ChunkerIdle
  /\ PipelineIdle("idle")
  /\ variant = "backend"

MergePass ==
  /\ passes < MaxPasses
  /\ merged_list' = MergeSmall(merged_list)
  /\ passes' = passes + 1
  /\ UNCHANGED <<chunk_list, pdf_doc, probed, rvars, cvars, pvars>>

MergeNext == MergePass

MergeSpec == MergeInit /\ [][MergeNext]_vars

(***************************************************************************)
(* Claims about the OCR router.                                            *)
(***************************************************************************)
Engines == EnginesToTry(engine_priority)

\* the invocation returned a result whose error field is non-empty
InvFailed(i) == invoked[i].returned /\ invoked[i].error # ""
\* the invocation returned a result whose error field is empty
InvSucceeded(i) == invoked[i].returned /\ invoked[i].error = ""

RouterReturned == rpc = "done" /\ RequiresOCR(refined_type)

FailedOnly(ws) == SelectSeq(ws, LAMBDA w : w.kind = "failed")

\* the first k engines of the list failed and engine k+1 succeeded
FirstKFailedThenSuccess(k) ==
  /\ RouterReturned
  /\ Len(invoked) = k + 1
  /\ k + 1 <= Len(Engines)
  /\ \A i \in 1..(k + 1) : invoked[i].engine = Engines[i]
  /\ \A i \in 1..k : InvFailed(i)
  /\ InvSucceeded(k + 1)

\* C1: when the first k engines of the priority list fail and engine k+1
\* succeeds, the returned result names engine k+1, has an empty error, and
\* its warnings hold exactly the k tags "<engine>_failed:<error>" of the
\* failed engines, one per engine, in the order the engines were attempted.
C1_FallbackOrder ==
  \A k \in 0..(Len(Engines) - 1) :
    FirstKFailedThenSuccess(k) =>
      /\ result.engine = Engines[k + 1]
      /\ result.error = ""
      /\ FailedOnly(result.warnings) =
           [i \in 1..k |-> FailTag(Engines[i], invoked[i].error)]

\* docai and vision fail, tesseract succeeds
C1_Witness ==
  /\ FirstKFailedThenSuccess(2)
  /\ Engines = <<"docai", "vision", "tesseract">>
  /\ result.engine = "tesseract"
  /\ Len(result.warnings) = 2

\* every engine that was tried returned a failure and the list is exhausted
AllEnginesFailed ==
  /\ RouterReturned
  /\ Len(invoked) = Len(Engines)
  /\ \A i \in DOMAIN invoked : InvFailed(i)

\* C2 (as stated): if every engine fails, the result has a non-empty error
\* and as many warnings as there are engines configured in engine_priority.
C2_Original ==
  AllEnginesFailed =>
    /\ result.error # ""
    /\ Len(result.warnings) = Len(engine_priority)

\* C2 (amended): if every engine fails, the result has a non-empty error and
\* as many warnings as engines were tried: the length of engine_priority, or
\* 3 (the default list docai, vision, tesseract) when engine_priority is empty.
C2_TotalFailure ==
  AllEnginesFailed =>
    /\ result.error # ""
    /\ Len(result.warnings) =
         (IF engine_priority = <<>> THEN 3 ELSE Len(engine_priority))

C2_Witness ==
  /\ AllEnginesFailed
  /\ Len(engine_priority) = 2
  /\ Len(result.warnings) = 2
  /\ result.error # ""

\* C3: a hung engine does not stall the router: while an engine invocation
\* has not returned the router can still take a step (the timeout), so a
\* router call never stops before it has returned.
C3_HungEngineTimesOut == rpc = "hung" => ENABLED Next

\* C8: the entries of the list are invoked strictly in list order, each at
\* most once, the router returns at the first engine whose result has an
\* empty error, and no entry after that engine is invoked.
C8_InOrderOnceStopAtFirstSuccess ==
  /\ Len(invoked) <= Len(Engines)
  /\ \A i \in DOMAIN invoked :
       /\ invoked[i].index = i
       /\ invoked[i].engine = Engines[i]
       /\ i < Len(invoked) => InvFailed(i)
  /\ (invoked # <<>> /\ InvSucceeded(Len(invoked))) =>
       /\ rpc = "done"
       /\ result.engine = Engines[Len(invoked)]
       /\ result.error = ""
  /\ ~RequiresOCR(refined_type) => invoked = <<>>

\* the second of three entries succeeds: the third is never invoked
C8_Witness ==
  /\ rpc = "done"
  /\ Len(Engines) = 3
  /\ Len(invoked) = 2
  /\ InvFailed(1)
  /\ InvSucceeded(2)
  /\ result.engine = Engines[2]

\* C9: an exception raised inside an engine is converted into a failure
\* whose error is the exception message; the engine counts as failed (its
\* "<engine>_failed:<message>" tag is recorded at its place) and the router
\* does not return that engine's result.
C9_ExceptionCountsAsFailure ==
  \A i \in DOMAIN invoked :
    invoked[i].outcome.kind = "raise" =>
      /\ invoked[i].error = invoked[i].outcome.msg
      /\ Len(accumulated_warnings) >= i
      /\ accumulated_warnings[i] = FailTag(invoked[i].engine, invoked[i].outcome.msg)
      /\ ~(rpc = "done" /\ i = Len(invoked))

(***************************************************************************)
(* Claims about the section splitter and the chunker.                      *)
(***************************************************************************)
NonBlankLines(t, a, b) ==
  SelectSeq([i \in 1..(b - a + 1) |-> a + i - 1], LAMBDA i : ~IsBlank(t[i]))

\* the non-blank lines of the section contents, concatenated in order
RECURSIVE ContentLines(_, _, _)
ContentLines(t, secs, i) ==
  IF i > Len(secs) THEN <<>>
  ELSE NonBlankLines(t, secs[i].content.from, secs[i].content.to)
       \o ContentLines(t, secs, i + 1)

\* C4: the sections returned by split_sections partition the text: the
\* first starts at offset 0, each section ends where the next one starts,
\* the last ends at len(text), and the section contents concatenated in
\* order hold every non-whitespace character of the text, in order.
C4_SectionsPartition ==
  cpc = "split" =>
    /\ sections # <<>>
    /\ sections[1].start = 0
    /\ \A i \in 1..(Len(sections) - 1) : sections[i].end = sections[i + 1].start
    /\ sections[Len(sections)].end = TextLen(text)
    /\ ContentLines(text, sections, 1) = NonBlankLines(text, 1, Len(text))

NonOverlap(ws) == SelectSeq(ws, LAMBDA r : ~r.ov)

\* C5: the chunk texts returned by chunk_section, concatenated in order
\* with every injected overlap tail removed, are the words of the section
\* body in their original order: nothing is dropped.
C5_ChunkCoverage ==
  cpc = "chunked" => NonOverlap(Join(merged)) = BodyRuns(text, Body)

\* the chunk is one part (after its overlap tail, if any) whose own
\* estimate exceeds the maximum
SingleOversizedPart(chunk) ==
  \E i \in DOMAIN parts :
    /\ NonOverlap(chunk) = parts[i]
    /\ estimate_tokens(parts[i]) > target_max_tokens

\* C6: every chunk returned by chunk_section has an estimate of at most
\* target_max_tokens + 200, except a chunk made of a single part whose own
\* estimate already exceeds the maximum.
C6_TokenBound ==
  cpc = "chunked" =>
    \A k \in DOMAIN merged :
      \/ estimate_tokens(merged[k]) <= target_max_tokens + 200
      \/ SingleOversizedPart(merged[k])

DocSection(d) == split_sections(text)[d.section_index + 1]
DocBody(d) == BodyRuns(text, DocSection(d).content)

\* the section has no bullet boundary
Indivisible(c) == IsEmptyRange(c) \/ Len(re_split(text, c)) <= 1

BatchNames == DOMAIN downloaded_files

\* the file has no chunk with content
NoUsableChunks(n) ==
  n \notin DOMAIN chunked_documents
    \/ \A k \in DOMAIN chunked_documents[n] : ~IsValidChunk(chunked_documents[n][k])

WarningNames(n) == \E k \in DOMAIN warnings : warnings[k].file = n

\* C10: after detect and extract have run over a batch, every downloaded
\* file appears in chunked_documents and in the per-file results of
\* run_pipeline, and a file that yields no usable chunks is there with an
\* empty chunk list and at least one warning that names it.
C10_NoFileDisappears ==
  ppc = "done" =>
    \A n \in BatchNames :
      /\ n \in DOMAIN chunked_documents
      /\ n \in DOMAIN results.results
      /\ NoUsableChunks(n) =>
           /\ chunked_documents[n] = <<>>
           /\ WarningNames(n)


\* C11: no chunk whose text is empty or whitespace-only is ever handed to
\* the storage collaborator: neither in the dictionary given to
\* upsert_to_pinecone nor among the documents given to the vector store,
\* in either variant of the extraction agent.
C11_NoBlankChunkStored ==
  /\ \A n \in DOMAIN upserted :
       \A k \in DOMAIN upserted[n] : IsValidChunk(upserted[n][k])
  /\ \A k \in DOMAIN stored : IsValidChunk(stored[k])

(***************************************************************************)
(* Further claims about the router (specification Spec).                   *)
(***************************************************************************)
\* C12: called with a refined type other than pdf_scanned and image,
\* ocr_router invokes no engine (it never enters its loop) and returns a
\* result with empty text, empty error, pages_processed 0 and a single
\* informational warning.
C12_NoOpForNonOcrTypes ==
  refined_type \notin {"pdf_scanned", "image"} =>
    /\ invoked = <<>>
    /\ rpc \in {"start", "done"}
    /\ rpc = "done" =>
         /\ result.text = ""
         /\ result.error = ""
         /\ result.pages_processed = 0
         /\ Len(result.warnings) = 1
         /\ result.warnings[1] = Warning("note", "", "OCR not required for this type")

\* the router has returned for a PDF with a text layer
C12_Witness ==
  /\ refined_type = "pdf_text"
  /\ rpc = "done"
  /\ result.warnings = <<Warning("note", "", "OCR not required for this type")>>
  /\ invoked = <<>>

\* C13: when every engine fails, ocr_router returns a synthetic result with
\* empty text, engine equal to the first engine of engine_priority (of the
\* default list when engine_priority is empty), the failure tags of all the
\* engines in order as warnings, and error equal to the error of the last
\* engine tried.
C13_SyntheticResult ==
  AllEnginesFailed =>
    /\ result.text = ""
    /\ result.pages_processed = 0
    /\ result.engine =
         (IF engine_priority # <<>> THEN engine_priority[1] ELSE DefaultEngines[1])
    /\ result.warnings =
         [i \in 1..Len(invoked) |-> FailTag(invoked[i].engine, invoked[i].error)]
    /\ result.error = invoked[Len(invoked)].error
    /\ result.error # ""

\* vision, then docai: both fail, the result is attributed to vision and
\* carries docai's error
C13_Witness ==
  /\ AllEnginesFailed
  /\ engine_priority = <<"vision", "docai">>
  /\ result.engine = "vision"
  /\ result.error = "config_error"
  /\ Len(result.warnings) = 2

\* C14: classification is a function of the file: running detection_agent
\* again on the state its first run produced (detected_types then holds the
\* refined types) leaves every file's refined type and ocr_needed flag
\* unchanged.
\* The second conjunct states the same of the classification itself, for
\* every extension, MIME type and PDF content, the MIME type not being tied
\* to the extension: classifying with the refined type in the place of the
\* coarse type detect_type gave returns the same refined type and flag.
AnyExt == Ext \cup {".xls", ".doc", ".md", ".jpg", ".jpeg", ".tiff"}
AnyMime ==
  {"application/pdf", "application/msword", "application/vnd.ms-excel",
   "application/vnd.openxmlformats-officedocument.wordprocessingml.document",
   "application/vnd.openxmlformats-officedocument.spreadsheetml.sheet",
   "text/plain", "image/png", "application/octet-stream"}

ClassificationStable ==
  \A e \in AnyExt, m \in AnyMime, k \in PdfKind, faulty \in BOOLEAN :
    LET f == File(e, k, faulty)
        first == Classify(m, detect_type(m), f)
    IN  Classify(m, first.kind, f) = first

C14_RefinedTypeStable ==
  /\ [][(DetectionAgent /\ ppc = "extract") =>
          (detected_types' = detected_types /\ ocr_needed' = ocr_needed)]_vars
  /\ []ClassificationStable

\* a second run over a batch with a PDF that has a text layer and a scanned one
C14_Witness ==
  /\ ppc = "redetected"
  /\ \E n \in DOMAIN downloaded_files : detected_types[n] = "pdf_text"
  /\ \E n \in DOMAIN downloaded_files :
       detected_types[n] = "pdf_scanned" /\ ocr_needed[n]

Detected == ppc \in {"extract", "redetected", "report", "done"}

InList(list, n) == \E k \in DOMAIN list : list[k] = n

\* the number of routing lists that hold the file
ListsHolding(n) ==
  Cardinality({l \in {"files_to_extract", "files_to_ocr", "files_excel",
                      "files_skipped"} : InList(routing[l], n)})

\* the file matches no branch of the classifier
Unclassifiable(f) ==
  /\ f.ext \notin {".xlsx", ".xls", ".docx", ".doc", ".txt", ".md", ".png",
                   ".jpg", ".jpeg", ".tiff", ".pdf"}
  /\ detect_type(get_mime(f.ext)) = "unknown"
  /\ ~IsImageMime(get_mime(f.ext))

\* C15: detection_agent never raises (it can always run to its end on the
\* state file_agent left), and after it every downloaded file has exactly
\* one refined type of the enumeration, an OCR flag and one routing list; a
\* file that matches no category, MIME type or extension, and a file whose
\* classification raises, is "unknown" with the OCR flag false.
C15_EveryFileClassified ==
  /\ ppc = "detect" => ENABLED DetectionAgent
  /\ Detected =>
       /\ DOMAIN detected_types = DOMAIN downloaded_files
       /\ DOMAIN ocr_needed = DOMAIN downloaded_files
       /\ \A n \in DOMAIN downloaded_files :
            /\ detected_types[n] \in RefinedType
            /\ ocr_needed[n] \in BOOLEAN
            /\ ListsHolding(n) = 1
            /\ (downloaded_files[n].faulty \/ Unclassifiable(downloaded_files[n]))
                 => (detected_types[n] = "unknown" /\ ~ocr_needed[n])

\* a file whose classification raised, next to a file of no known kind
C15_Witness ==
  /\ Detected
  /\ Len(downloaded_files) = 2
  /\ downloaded_files[1].faulty
  /\ downloaded_files[2] = File(".bin", "none", FALSE)
  /\ detected_types = <<"unknown", "unknown">>
  /\ \E k \in DOMAIN warnings : warnings[k] = FileWarning("detection_failed", 1, "path")

(***************************************************************************)
(* Claims about _probe_pdf (specification ProbeSpec).                      *)
(***************************************************************************)
FirstPages(doc) == SubSeq(doc.pages, 1, IF Len(doc.pages) < 3 THEN Len(doc.pages) ELSE 3)

HasPage(pages, kind) == \E i \in DOMAIN pages : pages[i] = kind

\* a page that raises comes before every page with text
RaisesFirst(pages) ==
  \E i \in DOMAIN pages :
    pages[i] = "raise" /\ \A j \in 1..(i - 1) : pages[j] # "text"

\* C16: the probe returns "corrupted" (no OCR) when opening or parsing
\* fails; otherwise "encrypted" (no OCR) when the encryption flag is set;
\* otherwise "pdf_text" (no OCR) when one of the first 3 pages at most has
\* non-blank text; otherwise "pdf_scanned" (OCR required).  Two documents
\* that differ only in pages after the third get the same answer.
C16_ProbeResult ==
  probed # NotProbed =>
    /\ ~pdf_doc.opens => probed = Probe("corrupted", FALSE)
    /\ (pdf_doc.opens /\ pdf_doc.encrypted) => probed = Probe("encrypted", FALSE)
    /\ (pdf_doc.opens /\ ~pdf_doc.encrypted) =>
         /\ RaisesFirst(FirstPages(pdf_doc)) => probed = Probe("corrupted", FALSE)
         /\ (~RaisesFirst(FirstPages(pdf_doc)) /\ HasPage(FirstPages(pdf_doc), "text"))
              => probed = Probe("pdf_text", FALSE)
         /\ (~HasPage(FirstPages(pdf_doc), "raise") /\ ~HasPage(FirstPages(pdf_doc), "text"))
              => probed = Probe("pdf_scanned", TRUE)
    /\ \A other \in PdfDocs :
         (/\ other.opens = pdf_doc.opens
          /\ other.encrypted = pdf_doc.encrypted
          /\ FirstPages(other) = FirstPages(pdf_doc)) => probe_pdf(other) = probed

\* three blank pages and a fourth with text: scanned, OCR required
C16_Witness ==
  /\ pdf_doc = PdfDoc(TRUE, FALSE, <<"blank", "blank", "blank", "text">>)
  /\ probed = Probe("pdf_scanned", TRUE)

(***************************************************************************)
(* Claims about the merge pass (specification MergeSpec).                  *)
(***************************************************************************)
IsSmall(ch) == (4 * WordCount(ch)) \div 3 < 300

NoAdjacentSmall(chunks) ==
  \A i \in 1..(Len(chunks) - 1) : ~(IsSmall(chunks[i]) /\ IsSmall(chunks[i + 1]))

\* C17: after one merge pass no two adjacent chunks are both below
\* target_min_tokens, and applying the pass again to its own output changes
\* nothing.
C17_MergeIdempotent ==
  /\ [](passes >= 1 => NoAdjacentSmall(merged_list))
  /\ [][(MergePass /\ passes >= 1) => merged_list' = merged_list]_vars

\* a list with a run of small chunks has been merged and passed again
C17_Witness ==
  /\ passes = 2
  /\ Len(chunk_list) = 4
  /\ \A i \in 1..4 : WordCount(chunk_list[i]) = 100
  /\ Len(merged_list) = 2

(***************************************************************************)
(* Further claims about the pipeline (specification PipeSpec).             *)
(***************************************************************************)
Skipped(n) == Detected /\ detected_types[n] \in {"encrypted", "corrupted", "unknown"}

\* the loop of the extraction agent has gone past the file
Visited(n) == ppc \in {"extract", "report", "done"} /\ file_idx > n

\* C18: for a file whose refined type is encrypted, corrupted or unknown
\* (a file of the list files_skipped) the extraction agent invokes no text
\* extractor and no OCR engine, and creates no chunk from it.
C18_NoExtractionOfSkipped ==
  \A n \in BatchNames :
    (Skipped(n) /\ Visited(n)) =>
      /\ InList(routing.files_skipped, n)
      /\ attempts[n].calls = <<>>
      /\ n \notin DOMAIN extracted_content
      /\ Get(chunked_documents, n, <<>>) = <<>>
      /\ n \notin DOMAIN upserted
      /\ \A k \in DOMAIN stored : stored[k].source # n

\* an encrypted PDF after a text file that was extracted, the run finished
C18_Witness ==
  /\ ppc = "done"
  /\ Len(downloaded_files) = 2
  /\ detected_types = <<"text", "encrypted">>
  /\ attempts[1].calls = <<"extract_text">>
  /\ attempts[2].calls = <<>>
  /\ stored # <<>>

\* the refined type the file's own path and content give it
OwnType(f) ==
  Classify(IF f.faulty THEN "application/octet-stream" ELSE get_mime(f.ext),
           IF f.faulty THEN "unknown" ELSE detect_type(get_mime(f.ext)), f).kind

\* what the dictionary holds for the file, as the iteration stored it
Entry(d, n) == IF n \in DOMAIN d THEN <<d[n]>> ELSE <<>>

\* the chunks under the file's name were made from that file
OwnChunks(n) ==
  \A k \in DOMAIN Get(chunked_documents, n, <<>>) : chunked_documents[n][k].source = n

\* the loop has a next iteration to run as long as a file is left
NextFileCanRun ==
  file_idx <= Len(downloaded_files) =>
    AgentSteps(variant, file_idx, downloaded_files[file_idx],
               Get(detected_types, file_idx, "unknown")) # {}

HasWarning(kinds, n) ==
  \E k \in DOMAIN warnings : warnings[k].file = n /\ warnings[k].kind \in kinds

\* a step that is an iteration of the loop or writes a per-file entry
WritesFileEntries ==
  \/ file_idx' # file_idx
  \/ chunked_documents' # chunked_documents
  \/ extracted_content' # extracted_content

\* one iteration leaves every other file's entries and every refined type
\* alone, and moves on to the next file
OtherFilesUntouched ==
  /\ file_idx' = file_idx + 1
  /\ detected_types' = detected_types
  /\ \A m \in BatchNames \ {file_idx} :
       /\ Entry(chunked_documents', m) = Entry(chunked_documents, m)
       /\ Entry(extracted_content', m) = Entry(extracted_content, m)
       /\ Entry(attempts', m) = Entry(attempts, m)

\* C19: an exception raised while classifying or extracting one file is
\* caught at that file and recorded as a warning naming the file; the files
\* after it are still processed (the loop goes on to its end); every file's
\* refined type is the one its own path and content give it, and its chunk
\* list is written by its own iteration only, from that refined type, and
\* left alone by the iterations of the other files.
C19_FailureIsolated ==
  /\ [](\A n \in BatchNames :
          /\ (Detected /\ downloaded_files[n].faulty) =>
               HasWarning({"detection_failed"}, n)
          /\ (Visited(n) /\ attempts[n].raised) =>
               HasWarning({"extraction_failed", "excel_processing_failed"}, n)
          /\ Detected => detected_types[n] = OwnType(downloaded_files[n])
          /\ OwnChunks(n)
          /\ ppc \in {"report", "done"} => n \in DOMAIN attempts)
  /\ [](ppc = "extract" => NextFileCanRun)
  /\ [][WritesFileEntries => OtherFilesUntouched]_vars

\* a Word file whose extraction raised, followed by a text file that was
\* chunked all the same
C19_Witness ==
  /\ ppc = "done"
  /\ Len(downloaded_files) = 2
  /\ attempts[1].raised
  /\ HasWarning({"extraction_failed"}, 1)
  /\ detected_types[2] = "text"
  /\ chunked_documents[2] # <<>>

(***************************************************************************)
(* Further claims about the chunker (specification ChunkSpec).             *)
(***************************************************************************)
\* no line of the text begins, after optional whitespace, with a marker
NoMarker(t) == \A i \in DOMAIN t : t[i].lead # "sec"

\* C20: split_sections never fails (applied to any text it yields a list of
\* sections that lie within the text), and for a text in which no section-boundary marker occurs it returns exactly
\* one section, whose header is None, whose start is 0 and whose end is
\* len(text).
C20_SingleSectionWithoutMarker ==
  /\ cpc = "start" =>
       \A k \in 1..Len(split_sections(text)) :
         /\ 0 <= split_sections(text)[k].start
         /\ split_sections(text)[k].start <= split_sections(text)[k].end
         /\ split_sections(text)[k].end <= LineStart(text, Len(text) + 1) - 1
  /\ (cpc = "split" /\ NoMarker(text)) =>
       /\ Len(sections) = 1
       /\ sections[1].header = [line |-> 0, capped |-> FALSE]
       /\ sections[1].start = 0
       /\ sections[1].end = LineStart(text, Len(text) + 1) - 1
       /\ sections[1].content = StripRange(text, 1, Len(text))

\* a text of several lines without a marker, split
C20_Witness ==
  /\ cpc = "split"
  /\ NoMarker(text)
  /\ Len(text) >= 2
  /\ \E i \in DOMAIN text : ~IsBlank(text[i])
  /\ Len(sections) = 1
  /\ sections[1].end > 0

(***************************************************************************)
(* Further claims about ocr_router (specification Spec).                   *)
(***************************************************************************)
\* the warnings the engine of invocation i put in the result it returned
OwnWarnings(i) == run_model(invoked[i].engine, invoked[i].outcome).warnings

IsFailTag(w) == w.kind = "failed"

Overflows(st, part) ==
  /\ part # <<>>
  /\ st.current # <<>>
  /\ st.current_tokens + estimate_tokens(part) > target_max_tokens

\* the last min_overlap_tokens words of the chunk, or the whole chunk when it
\* has no more words than that, as injected overlap
TailOf(chunk) ==
  [i \in DOMAIN (IF WordCount(chunk) > min_overlap_tokens
                   THEN TailWords(chunk, min_overlap_tokens) ELSE chunk) |->
     [(IF WordCount(chunk) > min_overlap_tokens
         THEN TailWords(chunk, min_overlap_tokens) ELSE chunk)[i] EXCEPT !.ov = TRUE]]

BeginsWith(ch, prefix) ==
  Len(ch) >= Len(prefix) /\ SubSeq(ch, 1, Len(prefix)) = prefix

HasNoOverlap(ch) == \A i \in DOMAIN ch : ~ch[i].ov

\* the iteration that flushes on overflow: the buffer becomes a chunk and the
\* next buffer is the tail of that chunk followed by the part (itself flushed
\* at once when its tracked count is above the maximum plus the slack)
FlushSeedsOverlap ==
  LET part    == parts[part_idx]
      flushed == JoinRange(loop.current, 1, Len(loop.current))
      seeded  == <<TailOf(flushed), part>>
      tokens  == estimate_tokens(TailOf(flushed)) + estimate_tokens(part)
  IN  /\ WordCount(TailOf(flushed)) =
           (IF WordCount(flushed) > min_overlap_tokens
              THEN min_overlap_tokens ELSE WordCount(flushed))
      /\ IF tokens > target_max_tokens + ForcePushSlack
           THEN /\ loop'.chunks =
                     loop.chunks \o <<flushed, TailOf(flushed) \o part>>
                /\ loop'.current = <<>>
           ELSE /\ loop'.chunks = Append(loop.chunks, flushed)
                /\ loop'.current = seeded
                /\ loop'.current_tokens = tokens

\* C22 (as stated): every chunk after the first begins with the tail of the
\* chunk before it.
C22_Original ==
  \A i \in 2..Len(loop.chunks) :
    BeginsWith(loop.chunks[i], TailOf(loop.chunks[i - 1]))

\* C22 (amended): when adding a part would push the buffer above
\* target_max_tokens and the buffer is non-empty, the buffer is flushed as a
\* chunk and the next buffer is the overlap tail (the last min_overlap_tokens
\* words of the flushed chunk, the whole chunk when it has no more words)
\* followed by the part; every chunk after the first either begins with the
\* tail of the chunk before it or holds no overlap at all (as after a flush
\* by the safety valve, which leaves an empty buffer).
C22_FlushSeedsOverlap ==
  /\ [][(cpc = "loop" /\ part_idx <= Len(parts) /\ part_idx' = part_idx + 1
         /\ Overflows(loop, parts[part_idx])) => FlushSeedsOverlap]_vars
  /\ [](\A i \in 2..Len(loop.chunks) :
          \/ BeginsWith(loop.chunks[i], TailOf(loop.chunks[i - 1]))
          \/ HasNoOverlap(loop.chunks[i]))

\* a flush on overflow happened: the buffer begins with the tail of the last
\* chunk, which has more than min_overlap_tokens words
C22_Witness ==
  /\ cpc = "loop"
  /\ loop.chunks # <<>>
  /\ Len(loop.current) >= 2
  /\ WordCount(loop.chunks[Len(loop.chunks)]) > min_overlap_tokens
  /\ loop.current[1] = TailOf(loop.chunks[Len(loop.chunks)])
  /\ WordCount(loop.current[1]) = min_overlap_tokens

\* the tracked count of the buffer once the part has been added to it
TokensAfterAdding(st, part) ==
  IF Overflows(st, part)
    THEN estimate_tokens(TailOf(JoinRange(st.current, 1, Len(st.current))))
           + estimate_tokens(part)
    ELSE st.current_tokens + estimate_tokens(part)

\* the buffer once the part has been added to it, as one text
BufferAfterAdding(st, part) ==
  IF Overflows(st, part)
    THEN TailOf(JoinRange(st.current, 1, Len(st.current))) \o part
    ELSE JoinRange(st.current, 1, Len(st.current)) \o part

\* C23: if after a part has been added the tracked token count of the buffer
\* exceeds target_max_tokens + 200, the buffer is flushed in the same
\* iteration, before the next part is looked at; hence at the start of every
\* iteration the tracked count is at most target_max_tokens + 200.
C23_SafetyValve ==
  /\ [](cpc = "loop" => loop.current_tokens <= target_max_tokens + 200)
  /\ [][(cpc = "loop" /\ part_idx <= Len(parts) /\ part_idx' = part_idx + 1
         /\ parts[part_idx] # <<>>
         /\ TokensAfterAdding(loop, parts[part_idx]) > target_max_tokens + 200)
        => /\ loop'.current = <<>>
           /\ loop'.current_tokens = 0
           /\ loop'.chunks # <<>>
           /\ loop'.chunks[Len(loop'.chunks)] =
                BufferAfterAdding(loop, parts[part_idx])]_vars

\* an oversized part was flushed by the valve and a further part is still to
\* be looked at
C23_Witness ==
  /\ cpc = "loop"
  /\ part_idx > 1
  /\ part_idx <= Len(parts)
  /\ parts[part_idx] # <<>>
  /\ loop.current = <<>>
  /\ loop.chunks # <<>>
  /\ estimate_tokens(loop.chunks[Len(loop.chunks)]) > target_max_tokens + 200

(***************************************************************************)
(* Further claims about create_documents (specification ChunkSpec).        *)
(***************************************************************************)
SectionBody(s) == BodyRuns(text, split_sections(text)[s + 1].content)

DocumentsOf(s) == SelectSeq(documents, LAMBDA d : d.section_index = s)

Called0(s) == \E k \in DOMAIN chunker_calls : chunker_calls[k] = s

\* C24: a section whose estimate is at most 750 tokens is emitted as exactly
\* one chunk whose text is the section body unchanged, and chunk_section is
\* called only for sections whose estimate exceeds 750.
C24_ShortSectionWhole ==
  cpc = "documents" =>
    \A s \in 0..(Len(split_sections(text)) - 1) :
      /\ estimate_tokens(SectionBody(s)) <= 750 =>
           /\ Len(DocumentsOf(s)) = 1
           /\ DocumentsOf(s)[1].page_content = SectionBody(s)
           /\ ~Called0(s)
      /\ Called0(s) => estimate_tokens(SectionBody(s)) > 750

\* a section of exactly 750 tokens that begins with a bullet marker, emitted
\* whole with its marker
C24_Witness ==
  /\ cpc = "documents"
  /\ chunker_calls = <<>>
  /\ Len(documents) = 1
  /\ documents[1].chunk_tokens = 750
  /\ documents[1].page_content = SectionBody(0)
  /\ text[1].lead = "bul"

(***************************************************************************)
(* Further claims about the OCR branch of the extraction agent             *)
(* (specification PipeSpec).                                               *)
(***************************************************************************)
CalledIn(n, name) == \E k \in DOMAIN attempts[n].calls : attempts[n].calls[k] = name

\* ocr_router returned, for the file, a result with an empty error and blank text
BlankOcrResult(n) ==
  /\ Visited(n)
  /\ CalledIn(n, "ocr_router")
  /\ attempts[n].ocr.error = ""
  /\ IsBlankText(attempts[n].ocr.text)

\* the chunks of the file that were built from the result of ocr_router
OcrChunks(n) ==
  SelectSeq(Get(chunked_documents, n, <<>>),
            LAMBDA d : d.chunk_type \in {"ocr_docai", "ocr_vision", "ocr_tesseract",
                                         "ocr_other"})

\* C25: when ocr_router returns an empty error and blank text, the
\* extraction agent records an ocr_failed warning for the file, falls back to
\* plain text extraction, and builds no chunk from the blank OCR text.
C25_BlankOcrIsSoftFailure ==
  \A n \in BatchNames :
    BlankOcrResult(n) =>
      /\ HasWarning({"ocr_failed"}, n)
      /\ CalledIn(n, "extract_text")
      /\ OcrChunks(n) = <<>>

(***************************************************************************)
(* Further claims about detection_agent (specification PipeSpec).          *)
(***************************************************************************)
\* how often the list names the file
Occurrences(list, n) == Cardinality({k \in DOMAIN list : list[k] = n})

\* the routing list the refined type belongs to
ListOfType(t) ==
  CASE t \in {"pdf_text", "word", "text"}            -> "files_to_extract"
    [] t \in {"pdf_scanned", "image"}                -> "files_to_ocr"
    [] t = "excel"                                   -> "files_excel"
    [] t \in {"encrypted", "corrupted", "unknown"}   -> "files_skipped"
    [] OTHER                                         -> "none"

RoutingLists == {"files_to_extract", "files_to_ocr", "files_excel", "files_skipped"}

\* C26: after detection_agent the four routing lists partition the
\* downloaded files: every downloaded file is named once in the list of its
\* refined type and in no other list, and the lists name nothing else.
C26_RoutingPartition ==
  Detected =>
    /\ \A n \in BatchNames :
         \A l \in RoutingLists :
           Occurrences(routing[l], n) =
             (IF l = ListOfType(detected_types[n]) THEN 1 ELSE 0)
    /\ \A l \in RoutingLists :
         \A k \in DOMAIN routing[l] : routing[l][k] \in BatchNames

\* an Excel file and an encrypted PDF, each in its own list
C26_Witness ==
  /\ Detected
  /\ detected_types = <<"excel", "encrypted">>
  /\ routing.files_excel = <<1>>
  /\ routing.files_skipped = <<2>>
  /\ routing.files_to_extract = <<>>
  /\ routing.files_to_ocr = <<>>

\* the OCR engines invoked for the file by the extraction agent
EnginesRun(n) ==
  {k \in DOMAIN attempts[n].calls :
     attempts[n].calls[k] \in {"docai", "vision", "tesseract"}}

\* C27: after detection_agent, ocr_needed[file] is true exactly when the
\* refined type is pdf_scanned or image, and these are exactly the refined
\* types for which ocr_router invokes an engine: for whatever the engines
\* return, and for every file the extraction agent has gone through.
C27_OcrFlagMatchesRouter ==
  /\ Detected =>
       \A n \in BatchNames :
         /\ ocr_needed[n] <=> detected_types[n] \in {"pdf_scanned", "image"}
         /\ Visited(n) => (ocr_needed[n] <=> EnginesRun(n) # {})
  /\ ppc = "detect" =>
       \A t \in RefinedType : \A outs \in EngineOutcomes :
         (Len(OcrCalls(t, outs)) > 1) <=> t \in {"pdf_scanned", "image"}

\* a scanned PDF and a PDF with a text layer, both gone through: engines ran
\* for the first only
C27_Witness ==
  /\ ppc = "done"
  /\ detected_types = <<"pdf_scanned", "pdf_text">>
  /\ ocr_needed = <<TRUE, FALSE>>
  /\ EnginesRun(1) # {}
  /\ EnginesRun(2) = {}
  /\ attempts[2].calls[1] = "ocr_router"

\* what extract_text returns for a PDF it cannot take text from
DiagnosticMessages == {PdfEncryptedMessage, PdfNoTextMessage, PdfErrorMessage}

\* PDF text extraction ran on the file and could not produce text
PdfExtractionGaveNoText(n) ==
  /\ Visited(n)
  /\ CalledIn(n, "extract_text")
  /\ downloaded_files[n].ext = ".pdf"
  /\ downloaded_files[n].pdf \in {"encrypted", "corrupt", "no_text"}

\* C28: when PDF text extraction cannot produce text, also as the fallback
\* after the OCR engines failed, the file ends with zero chunks and a
\* warning, and the extractor's diagnostic string is not kept as its text.
C28_NoChunkFromDiagnostic ==
  \A n \in BatchNames :
    PdfExtractionGaveNoText(n) =>
      /\ Get(chunked_documents, n, <<>>) = <<>>
      /\ WarningNames(n)
      /\ (n \in DOMAIN extracted_content
            => extracted_content[n].text \notin DiagnosticMessages)

\* every OCR engine tried for the file failed: the router returned its
\* synthetic failure result
AllEnginesFailedFor(n) ==
  /\ Visited(n)
  /\ CalledIn(n, "ocr_router")
  /\ attempts[n].ocr.error # ""
  /\ Cardinality(EnginesRun(n)) = Len(DefaultEngines)

\* C29: for a file of refined type image on which every OCR engine fails the
\* extraction agent produces zero chunks and records a warning; it does not
\* run the plain-text extractor on the image and creates no chunk from it.
C29_ImageNotReadAsText ==
  \A n \in BatchNames :
    (AllEnginesFailedFor(n) /\ detected_types[n] = "image") =>
      /\ Get(chunked_documents, n, <<>>) = <<>>
      /\ WarningNames(n)
      /\ ~CalledIn(n, "extract_text")

\* C30: for a file of refined type pdf_text, in both variants, no OCR engine
\* is invoked, the file's chunks are built from the text of the PDF's text
\* layer, the router's no-op result is not turned into a chunk and no chunk
\* of the file is tagged with an OCR engine.
C30_PdfTextFromTextLayer ==
  \A n \in BatchNames :
    (Visited(n) /\ detected_types[n] = "pdf_text") =>
      /\ EnginesRun(n) = {}
      /\ CalledIn(n, "extract_text")
      /\ OcrChunks(n) = <<>>
      /\ n \in DOMAIN extracted_content
      /\ extracted_content[n].engine = "extractText"
      /\ extracted_content[n].text = "document text"
      /\ Get(chunked_documents, n, <<>>) # <<>>
      /\ \A k \in DOMAIN chunked_documents[n] :
           /\ chunked_documents[n][k].chunk_type = "pdf_text_fallback"
           /\ IsValidChunk(chunked_documents[n][k])

====
